---- MODULE Spec2Model ----
(***************************************************************************)
(* Report-Helper: the configuration store (config_manager.py), the report  *)
(* assembler (report_generator.py), the language-model client's retry loop *)
(* (ai_generator.py) and the chat-platform submit scheduler                *)
(* (feishu_client.py, feishu_scheduler.py), with the windows and the timer  *)
(* that call the store (work_log_window.py, settings_window.py,            *)
(* report_window.py, timer_manager.py).                                    *)
(*                                                                         *)
(* Eleven specifications share the module:                                 *)
(*   Spec         the work-log store under add_work_log / delete_work_log  *)
(*   SpecWindow   the store under the work-log window's delete             *)
(*   SpecSettings the settings window's Save and Apply on the store        *)
(*   SpecShared   the threads that write the configuration without a lock  *)
(*   SpecReport   the report assembler applied to bounded log lists        *)
(*   SpecAI       one _call_openai_api call, attempt by attempt            *)
(*   SpecSched    the scheduler: UI thread start/stop, loop threads, clock *)
(*   SpecConfig   load_config / _merge_config and the section updates      *)
(*   SpecRange    the weekly and monthly date ranges of the assembler      *)
(*   SpecDeadline get_report_deadlines and auto_submit_report              *)
(*   SpecToken    get_tenant_access_token and its cached token             *)
(* The actions of a specification leave the variables of the others        *)
(* unchanged.                                                              *)
(***************************************************************************)
EXTENDS Integers, Sequences, FiniteSets, TLC

VARIABLES
    work_logs,      \* ConfigManager.config["work_logs"]: a list of entries
    disk_logs,      \* the "work_logs" list of the persisted JSON document
    clock,          \* the wall clock read by datetime.now() in the store
    call,           \* the store call that returned last: op, arguments, result
    retry_count,    \* AIReportGenerator.retry_count
    ai_pc,          \* _call_openai_api: "loop" (at the for statement) or "done"
    attempt,        \* the loop variable of _call_openai_api
    ai_errors,      \* the kind of error each failed attempt raised, in order
    ai_sleeps,      \* the argument of every time.sleep made, in order
    ai_result,      \* what the call gave its caller: "pending", "text", "None", "raised"
    ai_generator,   \* ReportGenerator.ai_generator is set (AI enabled, with a key)
    rg_call,        \* the ReportGenerator call that returned last
    now,            \* the wall clock of the scheduler: seconds since 00:00 of EpochDate
    feishu_config,  \* config["feishu_config"]: enabled, credentials, auto report, chat id
    running,        \* FeishuScheduler.running
    feishu_client,  \* FeishuScheduler.feishu_client is set
    scheduler_thread, \* FeishuScheduler.scheduler_thread: a thread, or 0 for None
    thr,            \* each thread of target _scheduler_loop: its place and wake-up time
    last_check_time, \* FeishuScheduler.last_check_time, or -1 for None
    submit_status,  \* config["submit_status"], in memory
    sent,           \* the reports the platform accepted: cadence and date, in order
    disk_submit_status, \* the "submit_status" section of the persisted document
    check_call,     \* the last call of _check_and_submit_reports, and the one before
    ui,             \* the UI thread: idle, or inside stop() waiting in join
    config_file,    \* the configuration file on disk
    config,         \* ConfigManager.config of the manager constructed last
    cm_call,        \* the ConfigManager call that returned last
    range_call,     \* the date-range computation of a report: its target and result
    fc_now,         \* the wall clock of the chat client, in seconds since 00:00 of EpochDate
    fc_settings,    \* the settings the chat client runs under
    fc_call,        \* the FeishuClient call that returned last
    tenant_access_token, \* FeishuClient.tenant_access_token, or 0 for None
    token_expire_time,   \* FeishuClient.token_expire_time
    token_call,     \* the get_tenant_access_token call that returned last
    sw_call,        \* the save_settings / apply_settings call that returned last
    report_history, \* config["report_history"], in memory
    disk_history,   \* the "report_history" list of the persisted document
    submit_count,   \* config["submit_status"]["submit_count"], in memory
    recorded,       \* the submissions the threads have recorded so far
    th              \* the threads that write the shared configuration

storeVars == <<work_logs, disk_logs, clock, call>>
aiVars == <<retry_count, ai_pc, attempt, ai_errors, ai_sleeps, ai_result>>

reportVars == <<ai_generator, rg_call>>

schedVars == <<now, feishu_config, running, feishu_client, scheduler_thread, thr,
               last_check_time, submit_status, disk_submit_status, sent, check_call, ui>>

configVars == <<config_file, config, cm_call>>

rangeVars == <<range_call>>
deadlineVars == <<fc_now, fc_settings, fc_call>>
tokenVars == <<tenant_access_token, token_expire_time, token_call>>
settingsVars == <<sw_call>>
sharedVars == <<report_history, disk_history, submit_count, recorded, th>>

vars == <<storeVars, aiVars, reportVars, schedVars, configVars, rangeVars, deadlineVars,
          tokenVars, settingsVars, sharedVars>>

\* What the actions of one component leave alone.
notStore ==
    <<aiVars, reportVars, schedVars, configVars, rangeVars, deadlineVars, tokenVars, settingsVars,
      sharedVars>>
notAI ==
    <<storeVars, reportVars, schedVars, configVars, rangeVars, deadlineVars, tokenVars, settingsVars,
      sharedVars>>
notReport ==
    <<storeVars, aiVars, schedVars, configVars, rangeVars, deadlineVars, tokenVars, settingsVars,
      sharedVars>>
notSched ==
    <<storeVars, aiVars, reportVars, configVars, rangeVars, deadlineVars, tokenVars, settingsVars,
      sharedVars>>
notConfig ==
    <<storeVars, aiVars, reportVars, schedVars, rangeVars, deadlineVars, tokenVars, settingsVars,
      sharedVars>>
notRange ==
    <<storeVars, aiVars, reportVars, schedVars, configVars, deadlineVars, tokenVars, settingsVars,
      sharedVars>>
notDeadline ==
    <<storeVars, aiVars, reportVars, schedVars, configVars, rangeVars, tokenVars, settingsVars,
      sharedVars>>
notToken ==
    <<storeVars, aiVars, reportVars, schedVars, configVars, rangeVars, settingsVars,
      sharedVars>>
notSettings ==
    <<storeVars, aiVars, reportVars, schedVars, rangeVars, deadlineVars, tokenVars,
      sharedVars>>
notShared ==
    <<storeVars, aiVars, reportVars, schedVars, configVars, rangeVars, deadlineVars,
      tokenVars, settingsVars>>

(***************************************************************************)
(* Bounds of the model.                                                    *)
(***************************************************************************)
MaxLogs == 2        \* add_work_log is not taken on a list of this length
MaxClock == 1       \* the store's clock stops advancing here
MaxRetry == 4       \* retry_count is drawn from 0..MaxRetry
MaxThreads == 2     \* loop threads alive at once; start() is not taken beyond
MaxElapsed == 300   \* seconds of scheduler time after the start instant
MaxUICalls == 2     \* calls of start(), stop() and on_settings_changed in a run
MaxConfigCalls == 3 \* constructions and updates of the configuration in a run
MaxDayOffset == 730 \* target dates run from 2023-01-01 to this many days later
MaxDaysAround == 95  \* the chat client is called up to this many days before and after EpochDate
MaxTokenTime == 600 \* seconds of client time over which tokens are asked for
MaxSaves == 1       \* calls of save_settings and apply_settings in a run
MaxThreadCalls == 1 \* calls each thread makes on the shared configuration
MaxRequests == 3    \* credential-exchange requests in a run
TokenStep == 100    \* seconds between two instants at which a token is asked for

(***************************************************************************)
(* Python strings, as sequences of character codes.  Dates are stored and  *)
(* compared as strings, so the order is the lexicographic order of str.    *)
(***************************************************************************)
Min(a, b) == IF a <= b THEN a ELSE b

\* str.__lt__: the first position where the strings differ decides; a proper
\* prefix is smaller.
StrLT(a, b) ==
    \E i \in 1..(Min(Len(a), Len(b)) + 1) :
        /\ \A j \in 1..(i - 1) : a[j] = b[j]
        /\ \/ i > Len(a) /\ i <= Len(b)
           \/ i <= Len(a) /\ i <= Len(b) /\ a[i] < b[i]

StrLE(a, b) == a = b \/ StrLT(a, b)

(***************************************************************************)
(* datetime: dates are records [y, m, d]; timedelta arithmetic goes        *)
(* through the proleptic Gregorian ordinal, as datetime does.              *)
(***************************************************************************)
IsLeap(y) == y % 4 = 0 /\ (y % 100 # 0 \/ y % 400 = 0)

DaysInMonth(y, m) ==
    IF m = 2 THEN (IF IsLeap(y) THEN 29 ELSE 28)
    ELSE IF m \in {4, 6, 9, 11} THEN 30 ELSE 31

RECURSIVE DaysBeforeMonth(_, _)
DaysBeforeMonth(y, m) ==
    IF m <= 1 THEN 0 ELSE DaysBeforeMonth(y, m - 1) + DaysInMonth(y, m - 1)

DaysBeforeYear(y) ==
    LET p == y - 1 IN p * 365 + (p \div 4) - (p \div 100) + (p \div 400)

\* date.toordinal()
ToOrdinal(dt) == DaysBeforeYear(dt.y) + DaysBeforeMonth(dt.y, dt.m) + dt.d

\* date.fromordinal(n)
FromOrdinal(n) ==
    LET n0 == n - 1
        n400 == n0 \div 146097
        r400 == n0 % 146097
        n100 == r400 \div 36524
        r100 == r400 % 36524
        n4 == r100 \div 1461
        r4 == r100 % 1461
        n1 == r4 \div 365
        r1 == r4 % 365
        year == n400 * 400 + 1 + n100 * 100 + n4 * 4 + n1
    IN IF n1 = 4 \/ n100 = 4
       THEN [y |-> year - 1, m |-> 12, d |-> 31]
       ELSE LET month == CHOOSE m \in 1..12 :
                            /\ DaysBeforeMonth(year, m) <= r1
                            /\ r1 < DaysBeforeMonth(year, m) + DaysInMonth(year, m)
            IN [y |-> year, m |-> month, d |-> r1 - DaysBeforeMonth(year, month) + 1]

\* dt + timedelta(days=k)
AddDays(dt, k) == FromOrdinal(ToOrdinal(dt) + k)

\* A week that starts on Sunday.
WeekdaySundayFirst(dt) == ToOrdinal(dt) % 7

\* datetime.weekday(): Monday is 0, Sunday is 6.
Weekday(dt) == (ToOrdinal(dt) + 6) % 7

\* The characters of a number written with `width` digits, zero padded.
RECURSIVE Digits(_, _)
Digits(n, width) ==
    IF width = 0 THEN <<>> ELSE Append(Digits(n \div 10, width - 1), 48 + (n % 10))

\* dt.strftime('%Y-%m-%d'): "YYYY-MM-DD", as character codes ('-' is 45).
Strftime(dt) == Digits(dt.y, 4) \o <<45>> \o Digits(dt.m, 2) \o <<45>> \o Digits(dt.d, 2)

\* The number a string of digits writes.
RECURSIVE Number(_)
Number(str) ==
    IF str = <<>> THEN 0
    ELSE Number(SubSeq(str, 1, Len(str) - 1)) * 10 + (str[Len(str)] - 48)

\* datetime.strptime(s, '%Y-%m-%d') of a string "YYYY-MM-DD".
Strptime(str) ==
    [y |-> Number(SubSeq(str, 1, 4)), m |-> Number(SubSeq(str, 6, 7)),
     d |-> Number(SubSeq(str, 9, 10))]

Date(y, m, d) == [y |-> y, m |-> m, d |-> d]

(***************************************************************************)
(* The work-log store.                                                     *)
(***************************************************************************)
NoCall == [op |-> "none"]

\* The entries the UI hands to add_work_log (work_log_window.save_log):
\* a date string, the content and the three classifying fields.
StoreInputs ==
    { [date |-> d, content |-> c, type |-> "work", priority |-> "mid",
       status |-> "ongoing"] : d \in {Strftime(Date(2024, 6, 5))}, c \in {"a", "b"} }

\* ConfigManager.get_work_logs
get_work_logs == work_logs

\* ConfigManager.save_config: the whole document is written, or the write
\* fails (the exception is caught) and the file keeps its content.
save_config(ok, logs) ==
    disk_logs' = IF ok THEN logs ELSE disk_logs

\* A slip in the identifier: the count itself.
NewIdOffByOne(logs) == Len(logs)

\* The identifier add_work_log assigns on a list `logs`.
NewId(logs) == Len(logs) + 1

\* ConfigManager.add_work_log(log_data); the clock may advance between the
\* call and the datetime.now() that stamps the entry.
add_work_log(log_data, dt, ok) ==
    /\ Len(work_logs) < MaxLogs
    /\ clock + dt <= MaxClock
    /\ LET entry == [id |-> NewId(work_logs), created_at |-> clock + dt,
                     date |-> log_data.date, content |-> log_data.content,
                     type |-> log_data.type, priority |-> log_data.priority,
                     status |-> log_data.status]
           logs == Append(work_logs, entry)
       IN /\ work_logs' = logs
          /\ save_config(ok, logs)
          /\ clock' = clock + dt
          /\ call' = [op |-> "add", arg |-> log_data, start |-> clock,
                      before |-> work_logs, ret |-> ok]
          /\ UNCHANGED notStore

\* The list comprehension of delete_work_log: the entries delete keeps.
RECURSIVE KeepOthers(_, _)
KeepOthers(logs, log_id) ==
    IF logs = <<>> THEN <<>>
    ELSE IF Head(logs).id # log_id
         THEN <<Head(logs)>> \o KeepOthers(Tail(logs), log_id)
         ELSE KeepOthers(Tail(logs), log_id)

\* ConfigManager.delete_work_log(log_id)
delete_work_log(log_id, ok) ==
    /\ work_logs' = KeepOthers(work_logs, log_id)
    /\ save_config(ok, KeepOthers(work_logs, log_id))
    /\ call' = [op |-> "delete", log_id |-> log_id, before |-> work_logs,
                ret |-> ok]
    /\ UNCHANGED <<clock, notStore>>

\* The values delete_work_log is handed: an identifier, or (from the
\* work-log window) the entry's whole dictionary.
PyInt(n) == [kind |-> "int", int |-> n]
PyDict(entry) == [kind |-> "dict", dict |-> entry]

\* log.get("id") == log_id in Python: an integer equals an integer of the
\* same value and never equals a dictionary.
PyEquals(id, value) == value.kind = "int" /\ id = value.int

\* The list comprehension of delete_work_log for any value of log_id.
KeepUnequal(logs, value) == SelectSeq(logs, LAMBDA log : ~PyEquals(log.id, value))

\* WorkLogWindow.delete_log(log_data), the question answered Yes (edit_log
\* and the batch delete make the same call for each entry):
\* delete_work_log(log_data) is handed the entry itself, and the window
\* shows success when it returns True.
delete_log(i, ok) ==
    /\ i \in 1..Len(work_logs)
    /\ LET log_data == work_logs[i]
           kept == KeepUnequal(work_logs, PyDict(log_data))
       IN /\ work_logs' = kept
          /\ save_config(ok, kept)
          /\ call' = [op |-> "window delete", log_id |-> log_data.id,
                      before |-> work_logs, ret |-> ok,
                      shown |-> IF ok THEN "success" ELSE "failure"]
    /\ UNCHANGED <<clock, notStore>>

InitStore ==
    /\ work_logs = <<>>
    /\ disk_logs = <<>>
    /\ clock = 0
    /\ call = NoCall

AddWorkLog == \E d \in StoreInputs, dt \in 0..1, ok \in BOOLEAN : add_work_log(d, dt, ok)

DeleteWorkLog == \E i \in 1..(MaxLogs + 1), ok \in BOOLEAN : delete_work_log(i, ok)

DeleteLog == \E i \in 1..MaxLogs, ok \in BOOLEAN : delete_log(i, ok)

(***************************************************************************)
(* The configuration document (config_manager.py).  A JSON value is a      *)
(* function from paths (sequences of keys) to strings: the value at the    *)
(* empty path is the root, a dictionary is marked by DictMark at its path  *)
(* and every other string is a leaf (number, string, boolean, list, null). *)
(* The sections held here are the dictionaries of the document; the        *)
(* work-log list is the store's work_logs above.                           *)
(***************************************************************************)
DictMark == "{}"

\* A leaf value, and the dictionary with the given keys and children.
Leaf(v) == [p \in {<<>>} |-> v]
DictOf(keys, child) ==
    [p \in {<<>>} \cup UNION {{<<k>> \o q : q \in DOMAIN child[k]} : k \in keys} |->
        IF p = <<>> THEN DictMark ELSE child[p[1]][Tail(p)]]

\* isinstance(value, dict); value.keys(); value[key]
IsDict(value) == value[<<>>] = DictMark
KeysOf(value) == {p[1] : p \in {q \in DOMAIN value : Len(q) >= 1}}
Child(value, key) ==
    [q \in {Tail(p) : p \in {x \in DOMAIN value : Len(x) >= 1 /\ x[1] = key}} |->
        value[<<key>> \o q]]

\* The dictionary whose leaves are given as pairs <<path, value>>.
Section(pairs) ==
    DictOf({x[1] : x \in pairs}, [k \in {x[1] : x \in pairs} |->
        Leaf((CHOOSE x \in pairs : x[1] = k)[2])])

ProviderNames == {"DeepSeek", "Zhipu", "Wenxin", "Tongyi", "Doubao"}

\* get_default_config(), without the two lists.
get_default_config ==
    DictOf({"templates", "settings", "feishu_config", "ai_config",
            "ai_providers_config", "submit_status"},
      [ templates |-> Section({<<"daily", "daily template">>, <<"weekly", "weekly template">>,
                               <<"monthly", "monthly template">>}),
        settings |-> Section({<<"reminder_enabled", "True">>, <<"reminder_interval", "60">>,
                              <<"work_days", "[Mon..Fri]">>, <<"work_start_time", "09:00">>,
                              <<"work_end_time", "18:00">>, <<"auto_submit_time", "20:00">>,
                              <<"startup_with_system", "False">>, <<"minimize_to_tray", "True">>,
                              <<"show_notifications", "True">>}),
        feishu_config |-> Section({<<"enabled", "False">>, <<"app_id", "">>, <<"app_secret", "">>,
                                   <<"chat_id", "">>, <<"auto_report_enabled", "False">>,
                                   <<"check_interval", "30">>, <<"daily_advance_hours", "2">>,
                                   <<"weekly_submit_time", "20:00">>,
                                   <<"monthly_submit_time", "20:00">>}),
        ai_config |-> Section({<<"enabled", "False">>, <<"provider", "DeepSeek">>,
                               <<"api_key", "">>, <<"api_base_url", "deepseek url">>,
                               <<"model", "deepseek-chat">>, <<"temperature", "0.7">>,
                               <<"max_tokens", "1000">>, <<"timeout", "30">>,
                               <<"retry_count", "3">>, <<"system_prompt", "prompt">>}),
        ai_providers_config |->
            DictOf(ProviderNames, [n \in ProviderNames |->
                Section({<<"api_key", "">>, <<"api_base_url", "url">>, <<"model", "model">>})]),
        submit_status |-> Section({<<"last_submit_date", "">>, <<"auto_submit_enabled", "True">>,
                                   <<"submit_count", "0">>}) ])

\* dict.update: target with every key of other set to other's value.
dict_update(target, other) ==
    LET keys == KeysOf(target) \cup KeysOf(other)
    IN DictOf(keys, [k \in keys |->
           IF k \in KeysOf(other) THEN Child(other, k) ELSE Child(target, k)])

\* config[key] = value
SetItem(target, key, value) ==
    LET keys == KeysOf(target) \cup {key}
    IN DictOf(keys, [k \in keys |-> IF k = key THEN value ELSE Child(target, k)])

\* A merge in which the default value wins at every key the defaults have.
MergeDefaultsWin(default, loaded) == dict_update(loaded, default)

\* _merge_config(default, loaded), loaded being a dictionary
RECURSIVE merge_config(_, _)
merge_config(default, loaded) ==
    LET keys == KeysOf(default) \cup KeysOf(loaded)
        merged(k) ==
            IF k \notin KeysOf(loaded) THEN Child(default, k)
            ELSE IF /\ k \in KeysOf(default)
                    /\ IsDict(Child(default, k))
                    /\ IsDict(Child(loaded, k))
                 THEN merge_config(Child(default, k), Child(loaded, k))
                 ELSE Child(loaded, k)
    IN DictOf(keys, [k \in keys |-> merged(k)])

\* What the configuration file can be: absent, bytes that are not UTF-8
\* text, text that is not JSON, or a JSON document.
Absent == [kind |-> "absent", doc |-> Leaf("")]
NotUtf8 == [kind |-> "not utf-8", doc |-> Leaf("")]
NotJson == [kind |-> "not json", doc |-> Leaf("")]
Json(doc) == [kind |-> "json", doc |-> doc]

\* load_config(): the configuration returned, or the exception that leaves
\* load_config.  json.load raises JSONDecodeError on text that is not JSON
\* and UnicodeDecodeError on bytes that are not text; loaded.items() raises
\* AttributeError on a document that is not a dictionary.  The handler
\* catches JSONDecodeError and FileNotFoundError.
load_config(file) ==
    CASE file.kind = "absent" -> [raised |-> "", config |-> get_default_config]
      [] file.kind = "not json" -> [raised |-> "", config |-> get_default_config]
      [] file.kind = "not utf-8" -> [raised |-> "UnicodeDecodeError", config |-> Leaf("")]
      [] file.kind = "json" ->
            IF IsDict(file.doc)
            THEN [raised |-> "", config |-> merge_config(get_default_config, file.doc)]
            ELSE [raised |-> "AttributeError", config |-> Leaf("")]

\* save_config() of the document cfg: json.dump into the file opened for
\* writing.  The open can fail, leaving the file as it was, and the write
\* can fail after the open has truncated the file.
SaveOutcomes == {"ok", "open fails", "write fails"}
WriteConfigFile(outcome, cfg) ==
    CASE outcome = "ok" -> Json(cfg)
      [] outcome = "open fails" -> config_file
      [] outcome = "write fails" -> NotJson

NoManager == Leaf("")
\* The call that returned last: its name, section and values, the
\* configuration before it, what it returned or raised, the call before it
\* and the number of calls so far.
NoConfigCall ==
    [op |-> "none", section |-> "", arg |-> Leaf(""), before |-> Leaf(""), ret |-> FALSE,
     raised |-> "", prev |-> [op |-> "none", section |-> "", ret |-> FALSE], n |-> 0]
ConfigCall(op, section, arg, ret, raised) ==
    [op |-> op, section |-> section, arg |-> arg, before |-> config, ret |-> ret,
     raised |-> raised,
     prev |-> [op |-> cm_call.op, section |-> cm_call.section, ret |-> cm_call.ret],
     n |-> cm_call.n + 1]

\* ConfigManager(config_file): __init__ loads the file; an exception of
\* load_config leaves the constructor and no manager exists.
NewConfigManager ==
    /\ cm_call.n < MaxConfigCalls
    /\ LET r == load_config(config_file)
       IN /\ config' = IF r.raised = "" THEN r.config ELSE NoManager
          /\ cm_call' = ConfigCall("load", "", Leaf(""), r.raised = "", r.raised)
    /\ UNCHANGED <<config_file, notConfig>>

\* update_settings / update_feishu_config / update_ai_config of one section:
\* self.config[section].update(values), then save_config(); a missing
\* section (KeyError) or one that is no dictionary (AttributeError) is
\* caught and False returned.
update_section(section, values, outcome) ==
    /\ cm_call.n < MaxConfigCalls
    /\ IsDict(config)
    /\ IF section \in KeysOf(config) /\ IsDict(Child(config, section))
       THEN LET updated == SetItem(config, section, dict_update(Child(config, section), values))
            IN /\ config' = updated
               /\ config_file' = WriteConfigFile(outcome, updated)
               /\ cm_call' = ConfigCall("update", section, values, outcome = "ok", "")
       ELSE /\ cm_call' = ConfigCall("update", section, values, FALSE, "")
            /\ UNCHANGED <<config, config_file>>
    /\ UNCHANGED notConfig

\* The values the windows and the tests pass to the update accessors.
SettingsValues ==
    { Section({<<"reminder_enabled", "False">>, <<"reminder_interval", "60">>,
               <<"new_setting", "test_value">>}),
      Section({<<"work_end_time", "19:00">>}) }
AIConfigValues ==
    { Section({<<"enabled", "True">>, <<"api_key", "test_key">>, <<"model", "gpt-4">>}) }

update_settings == \E s \in SettingsValues, o \in SaveOutcomes : update_section("settings", s, o)
update_ai_config == \E s \in AIConfigValues, o \in SaveOutcomes : update_section("ai_config", s, o)

\* The files a manager can find: none, unusable ones, and documents: a list,
\* the empty dictionary, the document of the tests, a document with null
\* for a section, with one provider changed and an unknown key, and with a
\* number for a provider.
ConfigFiles ==
    { Absent, NotUtf8, NotJson,
      Json(Leaf("[]")),
      Json(Leaf(DictMark)),
      Json(DictOf({"settings", "ai_config"},
           [ settings |-> Section({<<"reminder_enabled", "True">>, <<"reminder_interval", "30">>,
                                   <<"auto_submit_enabled", "False">>}),
             ai_config |-> Section({<<"enabled", "False">>, <<"api_key", "">>,
                                    <<"model", "gpt-3.5-turbo">>}) ])),
      Json(DictOf({"settings"}, [settings |-> Leaf("null")])),
      Json(DictOf({"ai_providers_config", "extra"},
           [ ai_providers_config |->
                 DictOf({"DeepSeek"}, [DeepSeek |-> Section({<<"model", "deepseek-coder">>})]),
             extra |-> Leaf("1") ])),
      Json(DictOf({"ai_providers_config"},
           [ai_providers_config |-> DictOf({"DeepSeek"}, [DeepSeek |-> Leaf("1")])])) }

InitConfig ==
    /\ config_file = Absent
    /\ config = NoManager
    /\ cm_call = NoConfigCall

\* No manager yet, and any of the files.
InitSpecConfig ==
    /\ config_file \in ConfigFiles
    /\ config = NoManager
    /\ cm_call = NoConfigCall

(***************************************************************************)
(* The settings window (settings_window.py) over the configuration         *)
(* document: save_settings and apply_settings.                             *)
(***************************************************************************)
\* update_settings / update_feishu_config / update_ai_config on the state
\* st (the configuration in memory and the file): the section is updated
\* and the document saved (save_config leaves the file as it was when it
\* cannot open it); an exception is caught and nothing is changed.
updated(st, section, values, outcome) ==
    IF section \in KeysOf(st.config) /\ IsDict(Child(st.config, section))
    THEN LET cfg == SetItem(st.config, section, dict_update(Child(st.config, section), values))
         IN [config |-> cfg, file |-> IF outcome = "ok" THEN Json(cfg) ELSE st.file]
    ELSE st

\* update_ai_provider_config(provider, values) on the state st, the
\* providers section and the provider's entry being dictionaries.
update_ai_provider_config(st, provider, values, outcome) ==
    IF /\ "ai_providers_config" \in KeysOf(st.config)
       /\ IsDict(Child(st.config, "ai_providers_config"))
       /\ provider \in KeysOf(Child(st.config, "ai_providers_config"))
       /\ IsDict(Child(Child(st.config, "ai_providers_config"), provider))
    THEN LET providers == Child(st.config, "ai_providers_config")
             entry == dict_update(Child(providers, provider), values)
             cfg == SetItem(st.config, "ai_providers_config",
                            SetItem(providers, provider, entry))
         IN [config |-> cfg, file |-> IF outcome = "ok" THEN Json(cfg) ELSE st.file]
    ELSE st

\* save_settings on the state st, the widgets holding form and the four
\* saves coming to o[1]..o[4]: the application settings and the chat
\* settings are saved, then the AI settings are validated, then the
\* provider's settings (when a key or a base URL is given) and the AI
\* settings are saved.  The result is the state left and the message shown.
save_settings(st, form, o) ==
    LET s1 == updated(st, "settings", form.settings, o[1])
        s2 == updated(s1, "feishu_config", form.feishu, o[2])
        provider_config == Section({<<"api_key", form.api_key>>,
                                    <<"api_base_url", form.api_base>>,
                                    <<"model", "deepseek-chat">>})
        s3 == IF form.api_key # "" \/ form.api_base # ""
              THEN update_ai_provider_config(s2, "DeepSeek", provider_config, o[3])
              ELSE s2
        ai_config == Section({<<"enabled", IF form.ai_enabled THEN "True" ELSE "False">>,
                              <<"provider", "DeepSeek">>, <<"api_key", form.api_key>>,
                              <<"api_base_url", form.api_base>>,
                              <<"model", "deepseek-chat">>})
    IN IF form.ai_enabled /\ form.api_key = ""
       THEN [state |-> s2, message |-> "validation failed"]
       ELSE [state |-> updated(s3, "ai_config", ai_config, o[4]), message |-> "saved"]

\* What the widgets can hold: the end of the working day as it is or moved,
\* the chat integration switched on, AI on or off, with or without a key
\* and a base URL.
SettingsForms ==
    [ settings : {Section({<<"work_end_time", "18:00">>, <<"theme", "light">>}),
                  Section({<<"work_end_time", "19:00">>, <<"theme", "dark">>})},
      feishu : {Section({<<"enabled", "True">>, <<"app_id", "id">>, <<"app_secret", "secret">>,
                         <<"chat_id", "chat">>, <<"auto_report_enabled", "True">>,
                         <<"check_interval_minutes", "5">>})},
      ai_enabled : BOOLEAN,
      api_key : {"", "key"},
      api_base : {"", "url"} ]

\* The Save button: save_settings, each of its four saves writing the file
\* or failing to open it.
SaveSettings ==
    /\ sw_call.n < MaxSaves
    /\ \E form \in SettingsForms, o \in [1..4 -> {"ok", "open fails"}] :
          LET r == save_settings([config |-> config, file |-> config_file], form, o)
          IN /\ config' = r.state.config
             /\ config_file' = r.state.file
             /\ sw_call' = [op |-> "save", form |-> form, before_config |-> config,
                            before_file |-> config_file, message |-> r.message,
                            emitted |-> FALSE, n |-> sw_call.n + 1]
    /\ UNCHANGED <<cm_call, notSettings>>

\* The Apply button: apply_settings is save_settings, then the
\* settings_changed signal and a message of success, whatever the save did.
ApplySettings ==
    /\ sw_call.n < MaxSaves
    /\ \E form \in SettingsForms, o \in [1..4 -> {"ok", "open fails"}] :
          LET r == save_settings([config |-> config, file |-> config_file], form, o)
          IN /\ config' = r.state.config
             /\ config_file' = r.state.file
             /\ sw_call' = [op |-> "apply", form |-> form, before_config |-> config,
                            before_file |-> config_file, message |-> r.message,
                            emitted |-> TRUE, n |-> sw_call.n + 1]
    /\ UNCHANGED <<cm_call, notSettings>>

InitSettings ==
    sw_call = [op |-> "none", form |-> <<>>, before_config |-> Leaf(""), before_file |-> Absent,
               message |-> "", emitted |-> FALSE, n |-> 0]

\* The window opened on a manager that found no file, or the file of the
\* defaults.
InitSpecSettings ==
    /\ config_file \in {Absent, Json(get_default_config)}
    /\ config = load_config(config_file).config
    /\ cm_call = NoConfigCall
    /\ InitSettings

(***************************************************************************)
(* The language-model client: one call of _call_openai_api.                *)
(***************************************************************************)
\* What an attempt can raise, by the branch of the handler that str(e) picks:
\* "rate limit" in the message, "api" and "error" in it, or anything else.
ErrorKinds == {"rate limit", "api error", "other"}

\* A loop that runs once too often.
LoopContinuesOnceMore(a, rc) == a <= rc

\* for attempt in range(self.retry_count): the body runs for a = 0 .. rc-1.
LoopContinues(a, rc) == a < rc

\* A backoff that forgets the factor two.
BackoffWaitNoFactor(a) == 2 ^ a

\* wait_time = (2 ** attempt) * 2
BackoffWait(a) == (2 ^ a) * 2

\* The seconds slept before the next attempt after an error of kind k.
SleepFor(k, a) == IF k = "rate limit" THEN BackoffWait(a) ELSE 1

\* The request of attempt `attempt` returns a completion: return it.
AttemptSucceeds ==
    /\ ai_pc = "loop"
    /\ LoopContinues(attempt, retry_count)
    /\ ai_pc' = "done"
    /\ ai_result' = "text"
    /\ UNCHANGED <<retry_count, attempt, ai_errors, ai_sleeps, notAI>>

\* The request of attempt `attempt` raises an Exception of kind k: every
\* branch of the handler sleeps and goes on while attempt < retry_count - 1,
\* and returns None on the last attempt.
AttemptFails(k) ==
    /\ ai_pc = "loop"
    /\ LoopContinues(attempt, retry_count)
    /\ ai_errors' = Append(ai_errors, k)
    /\ IF attempt < retry_count - 1
       THEN /\ ai_sleeps' = Append(ai_sleeps, SleepFor(k, attempt))
            /\ attempt' = attempt + 1
            /\ UNCHANGED <<ai_pc, ai_result>>
       ELSE /\ ai_pc' = "done"
            /\ ai_result' = "None"
            /\ UNCHANGED <<ai_sleeps, attempt>>
    /\ UNCHANGED <<retry_count, notAI>>

\* The for loop ends without a return (retry_count <= 0): return None.
LoopExhausted ==
    /\ ai_pc = "loop"
    /\ ~LoopContinues(attempt, retry_count)
    /\ ai_pc' = "done"
    /\ ai_result' = "None"
    /\ UNCHANGED <<retry_count, attempt, ai_errors, ai_sleeps, notAI>>

InitAI ==
    /\ retry_count = 0
    /\ ai_pc = "done"
    /\ attempt = 0
    /\ ai_errors = <<>>
    /\ ai_sleeps = <<>>
    /\ ai_result = "None"

\* A call begins, on a client configured with any retry_count.
InitCall ==
    /\ retry_count \in 0..MaxRetry
    /\ ai_pc = "loop"
    /\ attempt = 0
    /\ ai_errors = <<>>
    /\ ai_sleeps = <<>>
    /\ ai_result = "pending"

(***************************************************************************)
(* The report assembler.                                                   *)
(***************************************************************************)
\* The field values the assembler tests.  "high" stands for the priority
\* label of high priority, "done" / "ongoing" for the status labels of
\* completed / in progress, "work" / "project" for the type labels.
EntryKinds ==
    { [priority |-> "high", status |-> "ongoing", type |-> "work"],
      [priority |-> "mid", status |-> "done", type |-> "project"],
      [priority |-> "mid", status |-> "done", type |-> "work"],
      [priority |-> "mid", status |-> "ongoing", type |-> "work"] }

\* A range test that leaves the end date out.
InRangeEndExclusive(log_date, start_date, end_date) ==
    StrLE(start_date, log_date) /\ StrLT(log_date, end_date)

\* start_date <= log_date <= end_date, on strings
InRange(log_date, start_date, end_date) ==
    StrLE(start_date, log_date) /\ StrLE(log_date, end_date)

\* list.sort(key=date) is stable: an entry goes after the entries whose date
\* is not greater than its own.
RECURSIVE InsertByDate(_, _)
InsertByDate(sorted, e) ==
    IF sorted = <<>> THEN <<e>>
    ELSE IF StrLT(e.date, Head(sorted).date) THEN <<e>> \o sorted
         ELSE <<Head(sorted)>> \o InsertByDate(Tail(sorted), e)

RECURSIVE SortByDate(_)
SortByDate(logs) ==
    IF logs = <<>> THEN <<>>
    ELSE InsertByDate(SortByDate(SubSeq(logs, 1, Len(logs) - 1)), logs[Len(logs)])

\* ReportGenerator.get_logs_by_date_range
get_logs_by_date_range(start_date, end_date) ==
    SortByDate(SelectSeq(get_work_logs,
                         LAMBDA log : InRange(log.date, start_date, end_date)))

\* ReportGenerator.get_logs_by_date
get_logs_by_date(target_date) == get_logs_by_date_range(target_date, target_date)

\* A report is a list of lines: fixed text, or "- " and an entry's content.
Text(t) == <<[kind |-> "text", v |-> t]>>
Bullets(logs) == [i \in 1..Len(logs) |-> [kind |-> "bullet", v |-> logs[i].content]]

\* "\n".join(["- " + content ...]) or fallback
JoinOr(logs, fallback) == IF logs = <<>> THEN Text(fallback) ELSE Bullets(logs)

Take(logs, n) == SubSeq(logs, 1, Min(n, Len(logs)))

\* The nine keys format_logs_for_template fills for a list with entries.
TemplateKeys ==
    {"completed_tasks", "ongoing_tasks", "tomorrow_plan", "achievements",
     "completed_projects", "next_week_plan", "monthly_achievements", "milestones",
     "next_month_goals"}

\* A mapping for the empty list that has the keys of the daily template only.
EmptyLogsKeysDailyOnly == {"completed_tasks", "ongoing_tasks", "tomorrow_plan"}

\* The keys of the mapping returned for an empty list.
EmptyLogsKeys ==
    {"completed_tasks", "ongoing_tasks", "tomorrow_plan", "achievements",
     "completed_projects", "next_week_plan", "monthly_achievements", "milestones",
     "next_month_goals"}

\* A grouping that takes every entry for an achievement.
HighPriorityAll(logs) == logs

\* high_priority = [log for log in logs if log.get('priority') == high]
HighPriority(logs) == SelectSeq(logs, LAMBDA log : log.priority = "high")

\* ReportGenerator.format_logs_for_template
format_logs_for_template(logs) ==
    IF logs = <<>>
    THEN [k \in EmptyLogsKeys |->
            IF k \in {"tomorrow_plan", "next_week_plan", "next_month_goals"}
            THEN Text("to be planned") ELSE Text("no record")]
    ELSE LET high_priority == HighPriority(logs)
             completed == SelectSeq(logs, LAMBDA log : log.status = "done")
             in_progress == SelectSeq(logs, LAMBDA log : log.status = "ongoing")
             work_logs_ == SelectSeq(logs, LAMBDA log : log.type = "work")
         IN [k \in TemplateKeys |->
               CASE k = "completed_tasks" -> JoinOr(completed, "no completed tasks")
                 [] k = "ongoing_tasks" -> JoinOr(in_progress, "no ongoing tasks")
                 [] k = "tomorrow_plan" -> Text("plan for tomorrow")
                 [] k = "achievements" -> JoinOr(high_priority, "no achievements")
                 [] k = "completed_projects" ->
                        JoinOr(SelectSeq(completed, LAMBDA log : log.type = "project"),
                               "no completed projects")
                 [] k = "next_week_plan" -> Text("plan for next week")
                 [] k = "monthly_achievements" -> JoinOr(Take(work_logs_, 5), "no monthly achievements")
                 [] k = "milestones" -> JoinOr(Take(high_priority, 3), "no milestones")
                 [] k = "next_month_goals" -> Text("goals for next month")]

\* The default templates: fixed text and named placeholders, in order.
Lit(t) == [lit |-> TRUE, v |-> t]
Field(k) == [lit |-> FALSE, v |-> k]

get_templates ==
    [daily |-> <<Lit("daily summary"), Lit("completed:"), Field("completed_tasks"),
                 Lit("ongoing:"), Field("ongoing_tasks"),
                 Lit("tomorrow:"), Field("tomorrow_plan")>>,
     weekly |-> <<Lit("weekly summary"), Lit("achievements:"), Field("achievements"),
                  Lit("completed projects:"), Field("completed_projects"),
                  Lit("next week:"), Field("next_week_plan")>>,
     monthly |-> <<Lit("monthly summary"), Lit("achievements:"), Field("monthly_achievements"),
                   Lit("milestones:"), Field("milestones"),
                   Lit("next month:"), Field("next_month_goals")>>]

\* template.format(**format_data), every placeholder having a key
RECURSIVE Format(_, _)
Format(template, format_data) ==
    IF template = <<>> THEN <<>>
    ELSE (IF Head(template).lit THEN Text(Head(template).v)
          ELSE format_data[Head(template).v])
         \o Format(Tail(template), format_data)

Str(lines) == [kind |-> "str", lines |-> lines]
None == [kind |-> "None"]
KeyError == [kind |-> "KeyError"]

\* The named placeholders of a template.
Placeholders(template) ==
    {template[i].v : i \in {j \in 1..Len(template) : ~template[j].lit}}

\* template.format(**format_data): the text, or KeyError for a placeholder
\* the mapping has no key for; the generators do not catch it.
FormatTemplate(template, format_data) ==
    IF Placeholders(template) \subseteq DOMAIN format_data
    THEN Str(Format(template, format_data))
    ELSE KeyError

\* The AI generators of ai_generator.py: nothing without logs, else what
\* _call_openai_api returns (a completion if `answered`, else None).
ai_generate_report(logs, answered) ==
    IF logs = <<>> THEN None
    ELSE IF answered THEN Str(Text("completion")) ELSE None

\* A tail that takes the AI path on use_ai alone.
RenderWithoutGeneratorTest(period, logs, use_ai, answered) ==
    IF use_ai
    THEN ai_generate_report(logs, answered)
    ELSE FormatTemplate(get_templates[period], format_logs_for_template(logs))

\* The common tail of generate_daily / weekly / monthly_report.
Render(period, logs, use_ai, answered) ==
    IF use_ai /\ ai_generator
    THEN ai_generate_report(logs, answered)
    ELSE FormatTemplate(get_templates[period], format_logs_for_template(logs))

\* start_of_week, end_of_week of generate_weekly_report
WeekRange(target_date) ==
    LET target_dt == Strptime(target_date)
        start_of_week == AddDays(target_dt, 0 - Weekday(target_dt))
        end_of_week == AddDays(start_of_week, 6)
    IN <<Strftime(start_of_week), Strftime(end_of_week)>>

\* start_of_month, end_of_month of generate_monthly_report
MonthRange(target_date) ==
    LET target_dt == Strptime(target_date)
        start_of_month == [target_dt EXCEPT !.d = 1]
        end_of_month ==
            IF target_dt.m = 12
            THEN AddDays([y |-> target_dt.y + 1, m |-> 1, d |-> 1], -1)
            ELSE AddDays([target_dt EXCEPT !.m = target_dt.m + 1, !.d = 1], -1)
    IN <<Strftime(start_of_month), Strftime(end_of_month)>>

\* The range each period's generator computes.
PeriodRange(period, target_date) ==
    CASE period = "daily" -> <<target_date, target_date>>
      [] period = "weekly" -> WeekRange(target_date)
      [] period = "monthly" -> MonthRange(target_date)

\* The dates of the stored entries, the target dates of the reports and the
\* bounds of the range queries (the empty string and a prefix among them).
LogDates == {Strftime(Date(2024, 6, 2)), Strftime(Date(2024, 6, 3)), Strftime(Date(2024, 6, 9))}
TargetDates == {Strftime(Date(2024, 6, 3)), Strftime(Date(2024, 6, 5)), Strftime(Date(2024, 7, 1))}
RangeBounds == LogDates \cup {<<>>, SubSeq(Strftime(Date(2024, 6, 3)), 1, 9)}

\* A call of get_logs_by_date_range.
GetLogsByDateRange ==
    \E start_date \in RangeBounds, end_date \in RangeBounds :
        /\ rg_call = NoCall
        /\ rg_call' = [op |-> "range", start_date |-> start_date, end_date |-> end_date,
                       result |-> get_logs_by_date_range(start_date, end_date)]
        /\ UNCHANGED <<ai_generator, notReport>>

\* generate_daily_report / generate_weekly_report / generate_monthly_report
GenerateReport(period) ==
    \E target_date \in TargetDates, use_ai \in BOOLEAN, answered \in BOOLEAN :
        LET range == PeriodRange(period, target_date)
            logs == get_logs_by_date_range(range[1], range[2])
        IN /\ rg_call = NoCall
           /\ rg_call' = [op |-> period, target_date |-> target_date, use_ai |-> use_ai,
                          start_date |-> range[1], end_date |-> range[2], logs |-> logs,
                          result |-> Render(period, logs, use_ai, answered)]
           /\ UNCHANGED <<ai_generator, notReport>>

GenerateDailyReport == GenerateReport("daily")
GenerateWeeklyReport == GenerateReport("weekly")
GenerateMonthlyReport == GenerateReport("monthly")

InitReport ==
    /\ ai_generator = FALSE
    /\ rg_call = NoCall

\* The lists of at most MaxLogs entries the store holds after adds alone:
\* the i-th entry has identifier i; its content is the i-th text.
LogLists ==
    UNION { [1..n -> LogDates \X EntryKinds] : n \in 0..MaxLogs }

EntryOf(i, t) ==
    [id |-> i, created_at |-> 0, date |-> t[1], content |-> i, priority |-> t[2].priority,
     status |-> t[2].status, type |-> t[2].type]

(***************************************************************************)
(* The chat client's deadlines and the submit scheduler.                   *)
(***************************************************************************)
CheckInterval == 300    \* self.check_interval
SleepSeconds == 60      \* time.sleep(60)
JoinTimeout == 5        \* join(timeout=5)
DaySeconds == 86400

\* Day 0 of the scheduler's clock is Thursday 2024-05-30, so day 1 is a
\* Friday and the last day of a month.
EpochDate == Date(2024, 5, 30)

\* datetime.now(): the date and the second of the day.
DateOf(t) == AddDays(EpochDate, t \div DaySeconds)
SecondOfDay(t) == t % DaySeconds
Today(t) == Strftime(DateOf(t))
Clock(h, m, sec) == h * 3600 + m * 60 + sec

Cadences == <<"daily", "weekly", "monthly">>

\* A last day that is the 28th of every month.
LastDayOfMonthTwentyEighth(date) == [date EXCEPT !.d = 28]

\* last_day of get_report_deadlines("monthly")
LastDayOfMonth(date) ==
    LET next_month == AddDays([date EXCEPT !.d = 28], 4)
    IN AddDays(next_month, 0 - next_month.d)

\* A window test that never looks at the clock.
ShouldSubmitAlways(report_type, t) == TRUE

\* get_report_deadlines(report_type)["should_submit"] at time t
ShouldSubmit(report_type, t) ==
    LET sod == SecondOfDay(t) IN
    CASE report_type = "daily" ->
            sod >= Clock(18, 0, 0) - 2 * 3600 /\ sod <= Clock(18, 0, 0)
      [] report_type = "weekly" ->
            /\ Weekday(DateOf(t)) = 4
            /\ sod >= Clock(20, 0, 0) /\ sod <= Clock(23, 59, 59)
      [] report_type = "monthly" ->
            /\ DateOf(t) = LastDayOfMonth(DateOf(t))
            /\ sod >= Clock(20, 0, 0) /\ sod <= Clock(23, 59, 59)

\* What one cadence's attempt of check_and_auto_submit can come to: the
\* callback gives no content (no result), the report is delivered, or the
\* delivery fails (a failure result).
Outcomes == {"no content", "sent", "failed"}

\* The callback or auto_submit_report raises.
Raised == "raised"

\* The outcomes a check at time t can have: a cadence whose window is closed
\* is not attempted (held as "no content"); an attempt comes to one of
\* Outcomes or raises.
CheckOutcomes(t) ==
    LET Of(c) == IF ShouldSubmit(c, t) THEN Outcomes \cup {Raised} ELSE {"no content"}
    IN {[daily |-> d, weekly |-> w, monthly |-> m] :
            d \in Of("daily"), w \in Of("weekly"), m \in Of("monthly")}

\* An attempt whose exception leaves no result behind.
AttemptResultDropsException(c, o) ==
    IF o \in {"sent", "failed"} THEN <<[type |-> c, success |-> o = "sent"]>> ELSE <<>>

\* The result one cadence's attempt appends to results: none when the
\* callback gives no content, auto_submit_report's result, or the failure
\* result of the except branch.
AttemptResult(c, o) ==
    CASE o = "no content" -> <<>>
      [] o = "sent" -> <<[type |-> c, success |-> TRUE]>>
      [] o = "failed" -> <<[type |-> c, success |-> FALSE]>>
      [] o = Raised -> <<[type |-> c, success |-> FALSE]>>

\* check_and_auto_submit at time t: daily, weekly and monthly in turn, each
\* attempted when its window is open.
check_and_auto_submit(t, outcome) ==
    LET Of(c) == IF ShouldSubmit(c, t) THEN AttemptResult(c, outcome[c]) ELSE <<>>
    IN Of("daily") \o Of("weekly") \o Of("monthly")

\* The cadences check_and_auto_submit delivers at time t, given each
\* cadence's outcome: the window is tested before generating and again in
\* auto_submit_report.
Delivered(t, outcome) ==
    LET results == check_and_auto_submit(t, outcome)
        good == SelectSeq(results, LAMBDA r : r.success)
    IN [i \in 1..Len(good) |-> good[i].type]

\* A status update that counts one submission per check and keeps no
\* per-cadence date.
UpdateSubmitStatusOncePerCheck(status, types, today) ==
    IF types = <<>> THEN status
    ELSE [status EXCEPT !.last_submit_date = today, !.submit_count = @ + 1]

\* _update_submit_status(report_type, True) for each delivered cadence: the
\* record is changed in memory; save_config(config) is called with an
\* argument it does not take, and the TypeError is caught and logged.
RECURSIVE UpdateSubmitStatus(_, _, _)
UpdateSubmitStatus(status, types, today) ==
    IF types = <<>> THEN status
    ELSE LET c == Head(types)
             s1 == CASE c = "daily" -> [status EXCEPT !.last_daily_submit = today]
                     [] c = "weekly" -> [status EXCEPT !.last_weekly_submit = today]
                     [] c = "monthly" -> [status EXCEPT !.last_monthly_submit = today]
             s2 == [s1 EXCEPT !.last_submit_date = today, !.submit_count = @ + 1]
         IN UpdateSubmitStatus(s2, Tail(types), today)

\* _init_feishu_client: the client is constructed once the integration is
\* enabled with credentials; the result is that of the connectivity test.
InitClientConstructs(cfg) == cfg.enabled /\ cfg.credentials

\* A client set-up that takes the construction for the connectivity test.
InitClientSucceedsUntested(cfg, conn_ok) == InitClientConstructs(cfg)

\* _init_feishu_client's return value
InitClientSucceeds(cfg, conn_ok) == InitClientConstructs(cfg) /\ conn_ok

\* A new loop thread at pc, sleeping until wake, holding no results.
\* stopped: stop() has been called while it was the scheduler's thread;
\* tested: it has evaluated "while self.running" since.
Thread(pc, wake) ==
    [pc |-> pc, wake |-> wake, stopped |-> FALSE, tested |-> FALSE, checked |-> FALSE,
     outcome |-> [c \in {"daily", "weekly", "monthly"} |-> "no content"],
     results |-> <<>>]

Alive(t) == thr[t].pc # "dead"
FreeThreads == {t \in 1..MaxThreads : ~Alive(t)}

\* No start() has been called yet.
NoStart ==
    [called |-> FALSE, was_running |-> FALSE, constructed |-> FALSE,
     test_ok |-> FALSE, ret |-> FALSE, running_after |-> FALSE, created |-> {}]

\* The record of one start() call: what it found (self.running, whether
\* FeishuClient was constructed, whether test_connection then succeeded),
\* what it returned, and what it left: self.running and the threads started.
StartCall(is_running, cfg, conn_ok) ==
    [called |-> TRUE,
     was_running |-> is_running,
     constructed |-> ~is_running /\ InitClientConstructs(cfg),
     test_ok |-> ~is_running /\ InitClientConstructs(cfg) /\ conn_ok,
     ret |-> IF is_running THEN FALSE ELSE InitClientSucceeds(cfg, conn_ok),
     running_after |-> running',
     created |-> {t \in 1..MaxThreads : thr[t].pc = "dead" /\ thr'[t].pc # "dead"}]

\* start(), self.running being is_running and the settings cfg: refused while running or when the
\* client cannot be set up; otherwise running is set and a new loop thread
\* is started.
StartEffect(is_running, cfg, conn_ok) ==
    IF is_running
    THEN UNCHANGED <<running, feishu_client, scheduler_thread, thr>>
    ELSE /\ feishu_client' = (feishu_client \/ InitClientConstructs(cfg))
         /\ IF InitClientSucceeds(cfg, conn_ok)
            THEN /\ FreeThreads # {}
                 /\ LET t == CHOOSE x \in FreeThreads : \A z \in FreeThreads : x <= z
                    IN /\ running' = TRUE
                       /\ scheduler_thread' = t
                       /\ thr' = [thr EXCEPT ![t] = Thread("loop", 0)]
            ELSE /\ running' = FALSE
                 /\ UNCHANGED <<scheduler_thread, thr>>

\* ApplicationManager.run: start()
Start(conn_ok) ==
    /\ ui.pc = "idle"
    /\ ui.calls < MaxUICalls
    /\ StartEffect(running, feishu_config, conn_ok)
    /\ ui' = [ui EXCEPT !.calls = @ + 1,
                        !.started = StartCall(running, feishu_config, conn_ok)]
    /\ UNCHANGED <<now, feishu_config, last_check_time, submit_status, disk_submit_status,
                   sent, check_call, notSched>>

\* stop() up to its join: nothing when not running; otherwise the flag is
\* cleared and, with the thread alive, the UI thread waits for it for at
\* most JoinTimeout seconds.  `then` is what the caller does after stop():
\* "idle" (quit_application) or "start" (on_settings_changed).
StopThen(then, conn_ok) ==
    /\ ui.pc = "idle"
    /\ ui.calls < MaxUICalls
    /\ IF running /\ scheduler_thread # 0 /\ Alive(scheduler_thread)
       THEN /\ running' = FALSE
            /\ ui' = [ui EXCEPT !.pc = "join", !.deadline = now + JoinTimeout,
                                !.then = then, !.calls = @ + 1]
            /\ thr' = [thr EXCEPT ![scheduler_thread].stopped = TRUE,
                                  ![scheduler_thread].tested = FALSE]
            /\ UNCHANGED <<feishu_client, scheduler_thread>>
       ELSE IF then = "start"
            THEN /\ StartEffect(FALSE, feishu_config', conn_ok)
                 /\ ui' = [ui EXCEPT !.calls = @ + 1,
                                     !.started = StartCall(FALSE, feishu_config', conn_ok)]
            ELSE /\ running' = FALSE
                 /\ ui' = [ui EXCEPT !.calls = @ + 1]
                 /\ UNCHANGED <<feishu_client, scheduler_thread, thr>>
    /\ UNCHANGED <<now, last_check_time, submit_status, sent, check_call, notSched>>

\* quit_application: stop()
Stop == StopThen("idle", FALSE) /\ UNCHANGED <<feishu_config, disk_submit_status>>

\* apply_settings and on_settings_changed, the settings saved as c:
\* update_feishu_config(c) writes the whole document as it is in memory,
\* then stop() and at once start().
OnSettingsChanged(c, conn_ok) ==
    /\ feishu_config' = c
    /\ disk_submit_status' = submit_status
    /\ StopThen("start", conn_ok)

\* join returns: the thread has ended, or the timeout has passed; stop()
\* returns and on_settings_changed goes on to start().
JoinReturns(conn_ok) ==
    /\ ui.pc = "join"
    /\ ~Alive(scheduler_thread) \/ now >= ui.deadline
    /\ IF ui.then = "start"
       THEN /\ StartEffect(running, feishu_config, conn_ok)
            /\ ui' = [ui EXCEPT !.pc = "idle", !.deadline = 0, !.then = "idle",
                                !.started = StartCall(running, feishu_config, conn_ok)]
       ELSE /\ ui' = [ui EXCEPT !.pc = "idle", !.deadline = 0, !.then = "idle"]
            /\ UNCHANGED <<running, feishu_client, scheduler_thread, thr>>
    /\ UNCHANGED <<now, feishu_config, last_check_time, submit_status, disk_submit_status,
                   sent, check_call, notSched>>

\* while self.running: a thread enters an iteration, or leaves the loop.
LoopTest(t) ==
    /\ thr[t].pc = "loop"
    /\ thr' = [thr EXCEPT ![t].pc = IF running THEN "body" ELSE "dead",
                          ![t].tested = thr[t].stopped]
    /\ UNCHANGED <<now, feishu_config, running, feishu_client, scheduler_thread,
                   last_check_time, submit_status, disk_submit_status, sent, check_call,
                   ui, notSched>>

\* _should_check_now
ShouldCheckNow ==
    last_check_time = -1 \/ now - last_check_time >= CheckInterval

\* No call of _check_and_submit_reports yet.
NoCheck == [called |-> FALSE, at |-> -1, prev |-> -1, by |-> 0, path |-> "none"]

\* The record of a call of _check_and_submit_reports by thread t: when it
\* was made, when the call before it was, and the path it took.
CheckCall(t, path) ==
    [called |-> TRUE, at |-> now, prev |-> check_call.at, by |-> t, path |-> path]

\* The path a call of _check_and_submit_reports takes: it returns early
\* with no client ("no client"), with automatic reports off ("auto report
\* off") or without a chat ("no chat"); otherwise it reaches
\* check_and_auto_submit ("checked").
CheckPath(conn_ok) ==
    IF ~feishu_client /\ ~InitClientSucceeds(feishu_config, conn_ok) THEN "no client"
    ELSE IF ~feishu_config.auto_report_enabled THEN "auto report off"
    ELSE IF ~feishu_config.chat_id THEN "no chat"
    ELSE "checked"

\* One iteration of the loop body: _should_check_now and, if so,
\* _check_and_submit_reports; then time.sleep(60).
Body(t, conn_ok, outcome) ==
    /\ thr[t].pc = "body"
    /\ thr' = [thr EXCEPT ![t] =
                 IF ShouldCheckNow /\ CheckPath(conn_ok) = "checked"
                 THEN [thr[t] EXCEPT !.pc = "sleep", !.wake = now + SleepSeconds,
                                     !.checked = TRUE, !.outcome = outcome,
                                     !.results = check_and_auto_submit(now, outcome)]
                 ELSE [thr[t] EXCEPT !.pc = "sleep", !.wake = now + SleepSeconds]]
    /\ IF ~ShouldCheckNow
       THEN UNCHANGED <<feishu_client, last_check_time, submit_status, sent, check_call>>
       ELSE IF CheckPath(conn_ok) = "no client"
       THEN /\ feishu_client' = InitClientConstructs(feishu_config)
            /\ check_call' = CheckCall(t, "no client")
            /\ UNCHANGED <<last_check_time, submit_status, sent>>
       ELSE IF CheckPath(conn_ok) \in {"auto report off", "no chat"}
       THEN /\ feishu_client' = TRUE
            /\ check_call' = CheckCall(t, CheckPath(conn_ok))
            /\ UNCHANGED <<last_check_time, submit_status, sent>>
       ELSE LET types == Delivered(now, outcome) IN
            /\ feishu_client' = TRUE
            /\ check_call' = CheckCall(t, "checked")
            /\ sent' = sent \o [i \in 1..Len(types) |-> [type |-> types[i], date |-> Today(now)]]
            /\ submit_status' = UpdateSubmitStatus(submit_status, types, Today(now))
            /\ last_check_time' = now
    /\ UNCHANGED <<now, feishu_config, running, scheduler_thread, disk_submit_status, ui,
                   notSched>>

\* An iteration of thread t's loop, whatever the client and the callback do.
Iterate(t) ==
    /\ thr[t].pc = "body"
    /\ \E conn_ok \in BOOLEAN, outcome \in CheckOutcomes(now) : Body(t, conn_ok, outcome)

\* time.sleep(60) returns; the results of the iteration's check are gone.
Wake(t) ==
    /\ thr[t].pc = "sleep"
    /\ now >= thr[t].wake
    /\ thr' = [thr EXCEPT ![t] = [Thread("loop", thr[t].wake) EXCEPT
                                      !.stopped = thr[t].stopped,
                                      !.tested = thr[t].tested]]
    /\ UNCHANGED <<now, feishu_config, running, feishu_client, scheduler_thread,
                   last_check_time, submit_status, disk_submit_status, sent, check_call,
                   ui, notSched>>

\* The instants at which something is due: a sleeping thread's wake-up, the
\* end of the UI thread's join.
Timers ==
    {thr[t].wake : t \in {x \in 1..MaxThreads : thr[x].pc = "sleep"}}
        \cup (IF ui.pc = "join" THEN {ui.deadline} ELSE {})

\* The instants the application is started at: inside the daily window of
\* day 0, and shortly before the weekly and monthly windows of day 1.
StartInstants == {Clock(17, 50, 0), DaySeconds + Clock(19, 55, 0)}

\* Time passes, up to the next instant at which something is due (a minute
\* when nothing is); no time passes while a thread has a step to take.
Tick ==
    /\ \A t \in 1..MaxThreads : thr[t].pc \in {"dead", "sleep"}
    /\ \A d \in Timers : d > now
    /\ now' = IF Timers = {} THEN now + SleepSeconds
              ELSE CHOOSE d \in Timers : \A e \in Timers : d <= e
    /\ \E s \in StartInstants : s <= now /\ now' <= s + MaxElapsed
    /\ UNCHANGED <<feishu_config, running, feishu_client, scheduler_thread, thr,
                   last_check_time, submit_status, disk_submit_status, sent, check_call,
                   ui, notSched>>

\* The settings the scheduler can find: the integration on with automatic
\* reports, on without them, on without a chat, and off.
FeishuConfigs ==
    { [enabled |-> TRUE, credentials |-> TRUE, auto_report_enabled |-> TRUE, chat_id |-> TRUE],
      [enabled |-> TRUE, credentials |-> TRUE, auto_report_enabled |-> FALSE, chat_id |-> TRUE],
      [enabled |-> TRUE, credentials |-> TRUE, auto_report_enabled |-> TRUE, chat_id |-> FALSE],
      [enabled |-> FALSE, credentials |-> FALSE, auto_report_enabled |-> FALSE, chat_id |-> FALSE] }

DefaultSubmitStatus ==
    [last_submit_date |-> <<>>, submit_count |-> 0, last_daily_submit |-> <<>>,
     last_weekly_submit |-> <<>>, last_monthly_submit |-> <<>>]

InitSched ==
    /\ now = 0
    /\ feishu_config \in {c \in FeishuConfigs : ~c.enabled}
    /\ running = FALSE
    /\ feishu_client = FALSE
    /\ scheduler_thread = 0
    /\ thr = [t \in 1..MaxThreads |-> Thread("dead", 0)]
    /\ last_check_time = -1
    /\ submit_status = DefaultSubmitStatus
    /\ disk_submit_status = DefaultSubmitStatus
    /\ sent = <<>>
    /\ check_call = NoCheck
    /\ ui = [pc |-> "idle", deadline |-> 0, then |-> "idle", calls |-> 0,
             started |-> NoStart]

(***************************************************************************)
(* The date ranges of the weekly and monthly reports, as functions of the  *)
(* target date alone.                                                      *)
(***************************************************************************)
\* The target dates: every day of 2023 and 2024.
RangeTargets == {Strftime(AddDays(Date(2023, 1, 1), k)) : k \in 0..MaxDayOffset}

NoRange == <<<<>>, <<>>>>

\* generate_weekly_report: start_date, end_date of the target date
WeeklyRange ==
    /\ range_call.op = "none"
    /\ range_call' = [range_call EXCEPT !.op = "weekly", !.range = WeekRange(range_call.target_date)]
    /\ UNCHANGED notRange

\* generate_monthly_report: start_date, end_date of the target date
MonthlyRange ==
    /\ range_call.op = "none"
    /\ range_call' = [range_call EXCEPT !.op = "monthly", !.range = MonthRange(range_call.target_date)]
    /\ UNCHANGED notRange

InitRange ==
    range_call = [op |-> "none", target_date |-> Strftime(Date(2023, 1, 1)), range |-> NoRange]

InitSpecRange ==
    \E t \in RangeTargets : range_call = [op |-> "none", target_date |-> t, range |-> NoRange]

(***************************************************************************)
(* The chat client's deadlines and auto_submit_report, as functions of the *)
(* time of the call.                                                       *)
(***************************************************************************)
\* The time, in seconds since 00:00 of EpochDate, of a second of a date.
Timestamp(date, sod) == (ToOrdinal(date) - ToOrdinal(EpochDate)) * DaySeconds + sod

\* A window that is closed one second before the deadline.
DeadlinesEndExclusive(report_type, t) ==
    LET deadline == Timestamp(DateOf(t), Clock(18, 0, 0))
    IN [deadline |-> deadline, submit_time |-> deadline - 2 * 3600,
        should_submit |-> t >= deadline - 2 * 3600 /\ t < deadline]

\* get_report_deadlines(report_type), called at time t: deadline,
\* submit_time and should_submit of the result.
get_report_deadlines(report_type, t) ==
    LET date == DateOf(t) IN
    CASE report_type = "daily" ->
            LET deadline == Timestamp(date, Clock(18, 0, 0))
                submit_time == deadline - 2 * 3600
            IN [deadline |-> deadline, submit_time |-> submit_time,
                should_submit |-> t >= submit_time /\ t <= deadline]
      [] report_type = "weekly" ->
            LET days_until_friday == (4 - Weekday(date)) % 7
                friday == AddDays(date, days_until_friday)
                deadline == Timestamp(friday, Clock(23, 59, 59))
                submit_time == Timestamp(friday, Clock(20, 0, 0))
            IN [deadline |-> deadline, submit_time |-> submit_time,
                should_submit |-> Weekday(date) = 4 /\ t >= submit_time /\ t <= deadline]
      [] report_type = "monthly" ->
            LET last_day == LastDayOfMonth(date)
                deadline == Timestamp(last_day, Clock(23, 59, 59))
                submit_time == Timestamp(last_day, Clock(20, 0, 0))
            IN [deadline |-> deadline, submit_time |-> submit_time,
                should_submit |-> date = last_day /\ t >= submit_time /\ t <= deadline]

\* The labels auto_submit_report is called with, and type_mapping.get(label,
\* "daily").
ReportLabels == {"daily report", "weekly report", "monthly report", "other"}
type_mapping(label) ==
    CASE label = "daily report" -> "daily"
      [] label = "weekly report" -> "weekly"
      [] label = "monthly report" -> "monthly"
      [] OTHER -> "daily"

\* A submission that does not test the window.
AutoSubmitWithoutWindowTest(label, t, send_ok) == [sends |-> 1, success |-> send_ok]

\* auto_submit_report(chat_id, report_content, report_type) at time t: the
\* number of send_report calls and result["success"]; send_ok is what
\* send_report returns.
auto_submit_report(label, t, send_ok) ==
    IF ~get_report_deadlines(type_mapping(label), t).should_submit
    THEN [sends |-> 0, success |-> FALSE]
    ELSE [sends |-> 1, success |-> send_ok]

NoClientCall ==
    [op |-> "none", report_type |-> "", deadline |-> 0, submit_time |-> 0,
     should_submit |-> FALSE, sends |-> 0, success |-> FALSE]

\* get_report_deadlines(report_type), called now
GetReportDeadlines ==
    \E report_type \in {"daily", "weekly", "monthly"} :
        LET r == get_report_deadlines(report_type, fc_now)
        IN /\ fc_call.op = "none"
           /\ fc_call' = [NoClientCall EXCEPT !.op = "deadlines", !.report_type = report_type,
                              !.deadline = r.deadline, !.submit_time = r.submit_time,
                              !.should_submit = r.should_submit]
           /\ UNCHANGED <<fc_now, fc_settings, notDeadline, tokenVars>>

\* auto_submit_report(chat_id, report_content, label), called now
AutoSubmitReport ==
    \E label \in ReportLabels, send_ok \in BOOLEAN :
        LET r == auto_submit_report(label, fc_now, send_ok)
        IN /\ fc_call.op = "none"
           /\ fc_call' = [NoClientCall EXCEPT !.op = "auto_submit", !.report_type = label,
                              !.sends = r.sends, !.success = r.success]
           /\ UNCHANGED <<fc_now, fc_settings, notDeadline, tokenVars>>

\* The instants of the calls: the seconds around the edges of the windows,
\* on every day around EpochDate.
EdgeSeconds ==
    {Clock(0, 0, 0), Clock(15, 59, 59), Clock(16, 0, 0), Clock(18, 0, 0), Clock(18, 0, 1),
     Clock(19, 59, 59), Clock(20, 0, 0), Clock(23, 59, 59)}
CallInstants ==
    {day * DaySeconds + sod : day \in (0 - MaxDaysAround)..MaxDaysAround, sod \in EdgeSeconds}

\* settings["work_end_time"], as a second of the day.
WorkEndTimes == {Clock(18, 0, 0), Clock(19, 0, 0)}

InitDeadline ==
    /\ fc_now = 0
    /\ fc_settings = [work_end_time |-> Clock(18, 0, 0)]
    /\ fc_call = NoClientCall

InitSpecDeadline ==
    /\ fc_now \in CallInstants
    /\ fc_settings \in [work_end_time : WorkEndTimes]
    /\ fc_call = NoClientCall

(***************************************************************************)
(* The chat client's access token (get_tenant_access_token).  A token is   *)
(* the number of the request that returned it; 0 is None.                  *)
(***************************************************************************)
SafetyMargin == 300     \* the token is refreshed five minutes early

\* A cache test that never looks at the clock.
CachedTokenValidForever(token, expire_time, t) == token # 0

\* self.tenant_access_token and time.time() < self.token_expire_time
CachedTokenValid(token, expire_time, t) == token # 0 /\ t < expire_time

\* What the exchange request can come to: a token with its lifetime, a
\* token without the expire field (KeyError, after the token was stored), a
\* result whose code is not 0, an exception of the request.
ExchangeOutcomes == {"ok", "no expire", "code", "exception"}
Lifetimes == {200, 500}

NoTokenCall ==
    [op |-> "none", requested |-> FALSE, ret |-> 0, before_token |-> 0, before_expire |-> 0,
     at |-> 0, outcome |-> "", requests |-> 0, acquired_at |-> 0, lifetime |-> 0]

\* get_tenant_access_token(), called now
get_tenant_access_token(outcome, expire) ==
    LET c == [token_call EXCEPT !.op = "token", !.before_token = tenant_access_token,
                                !.before_expire = token_expire_time, !.at = fc_now]
        new_token == token_call.requests + 1
    IN IF CachedTokenValid(tenant_access_token, token_expire_time, fc_now)
       THEN /\ token_call' = [c EXCEPT !.requested = FALSE, !.ret = tenant_access_token,
                                   !.outcome = ""]
            /\ UNCHANGED <<tenant_access_token, token_expire_time>>
       ELSE /\ token_call.requests < MaxRequests
            /\ CASE outcome = "ok" ->
                     /\ tenant_access_token' = new_token
                     /\ token_expire_time' = fc_now + expire - SafetyMargin
                     /\ token_call' = [c EXCEPT !.requested = TRUE, !.ret = new_token,
                                            !.outcome = outcome,
                                            !.requests = @ + 1, !.acquired_at = fc_now,
                                            !.lifetime = expire]
                 [] outcome = "no expire" ->
                     /\ tenant_access_token' = new_token
                     /\ UNCHANGED token_expire_time
                     /\ token_call' = [c EXCEPT !.requested = TRUE, !.ret = 0,
                                            !.outcome = outcome, !.requests = @ + 1]
                 [] OTHER ->
                     /\ UNCHANGED <<tenant_access_token, token_expire_time>>
                     /\ token_call' = [c EXCEPT !.requested = TRUE, !.ret = 0,
                                            !.outcome = outcome, !.requests = @ + 1]

GetTenantAccessToken ==
    /\ \E outcome \in ExchangeOutcomes, expire \in Lifetimes :
           get_tenant_access_token(outcome, expire)
    /\ UNCHANGED <<deadlineVars, notToken>>

\* time.time() moves on.
TokenTick ==
    /\ fc_now + TokenStep <= MaxTokenTime
    /\ fc_now' = fc_now + TokenStep
    /\ UNCHANGED <<fc_settings, fc_call, tokenVars, notToken>>

InitToken ==
    /\ tenant_access_token = 0
    /\ token_expire_time = 0
    /\ token_call = NoTokenCall

\* The report ranges and the chat client before any call.
InitClient == InitRange /\ InitDeadline /\ InitToken

(***************************************************************************)
(* The threads that write the shared configuration without a lock: the UI  *)
(* thread's timer (TimerManager.trigger_auto_submit), a report worker      *)
(* (ReportGenerationThread.run) and the scheduler's loop thread            *)
(* (_update_submit_status).  A step is what a thread does between two      *)
(* points at which the interpreter can switch threads.                     *)
(***************************************************************************)
Threads == {"timer", "worker", "scheduler"}

\* add_report_history: report_data["id"] = len(report_history) + 1; the
\* timer and the worker save reports (save_report -> add_report_history).
HistoryLen(t) ==
    /\ t \in {"timer", "worker"}
    /\ th[t].pc = "idle"
    /\ th[t].calls < MaxThreadCalls
    /\ th' = [th EXCEPT ![t] = [pc |-> "append", local |-> Len(report_history) + 1,
                                calls |-> @.calls + 1]]
    /\ UNCHANGED <<report_history, disk_history, submit_count, recorded, notShared>>

\* add_report_history: report_history.append(report_data)
HistoryAppend(t) ==
    /\ th[t].pc = "append"
    /\ report_history' = Append(report_history, [id |-> th[t].local, by |-> t])
    /\ th' = [th EXCEPT ![t].pc = "save"]
    /\ UNCHANGED <<disk_history, submit_count, recorded, notShared>>

\* add_report_history: return self.save_config(); the worker is done, the
\* timer goes on to the submit status.
HistorySave(t, ok) ==
    /\ th[t].pc = "save"
    /\ disk_history' = IF ok THEN report_history ELSE disk_history
    /\ th' = [th EXCEPT ![t].pc = IF t = "timer" THEN "status" ELSE "idle"]
    /\ UNCHANGED <<report_history, submit_count, recorded, notShared>>

\* submit_status.get("submit_count", 0): the timer after its save, the
\* scheduler for a successful result of a check.
StatusRead(t) ==
    /\ \/ t = "timer" /\ th[t].pc = "status"
          /\ th' = [th EXCEPT ![t] = [@ EXCEPT !.pc = "write", !.local = submit_count]]
       \/ t = "scheduler" /\ th[t].pc = "idle" /\ th[t].calls < MaxThreadCalls
          /\ th' = [th EXCEPT ![t] = [pc |-> "write", local |-> submit_count,
                                      calls |-> @.calls + 1]]
    /\ UNCHANGED <<report_history, disk_history, submit_count, recorded, notShared>>

\* submit_status["submit_count"] = ... + 1: the submission is recorded.  The
\* scheduler's save_config(config) raises and writes nothing.
StatusWrite(t) ==
    /\ th[t].pc = "write"
    /\ submit_count' = th[t].local + 1
    /\ recorded' = recorded + 1
    /\ th' = [th EXCEPT ![t].pc = IF t = "timer" THEN "status save" ELSE "idle"]
    /\ UNCHANGED <<report_history, disk_history, notShared>>

\* update_submit_status(submit_status): the timer's save_config() writes
\* the whole document, of which the history is followed here.
StatusSave(ok) ==
    /\ th["timer"].pc = "status save"
    /\ disk_history' = IF ok THEN report_history ELSE disk_history
    /\ th' = [th EXCEPT !["timer"].pc = "idle"]
    /\ UNCHANGED <<report_history, submit_count, recorded, notShared>>

InitShared ==
    /\ report_history = <<>>
    /\ disk_history = <<>>
    /\ submit_count = 0
    /\ recorded = 0
    /\ th = [t \in Threads |-> [pc |-> "idle", local |-> 0, calls |-> 0]]

(***************************************************************************)
(* The specifications.                                                     *)
(***************************************************************************)
Init == InitStore /\ InitAI /\ InitReport /\ InitSched /\ InitConfig /\ InitClient /\ InitSettings /\ InitShared

Next == AddWorkLog \/ DeleteWorkLog

Spec == Init /\ [][Next]_vars

\* The store under the work-log window: entries are added and deleted
\* from the list the window shows.
NextWindow == AddWorkLog \/ DeleteLog

SpecWindow == Init /\ [][NextWindow]_vars

InitSpecSettingsAll ==
    InitStore /\ InitAI /\ InitReport /\ InitSched /\ InitSpecSettings /\ InitClient /\ InitShared

NextSettings == SaveSettings \/ ApplySettings

SpecSettings == InitSpecSettingsAll /\ [][NextSettings]_vars

NextShared ==
    \/ \E t \in Threads : HistoryLen(t)
    \/ \E t \in Threads : HistoryAppend(t)
    \/ \E t \in Threads, ok \in BOOLEAN : HistorySave(t, ok)
    \/ \E t \in Threads : StatusRead(t)
    \/ \E t \in Threads : StatusWrite(t)
    \/ \E ok \in BOOLEAN : StatusSave(ok)

SpecShared == Init /\ [][NextShared]_vars

InitSpecAI == InitStore /\ InitCall /\ InitReport /\ InitSched /\ InitConfig /\ InitClient /\ InitSettings /\ InitShared

NextAI ==
    \/ AttemptSucceeds
    \/ \E k \in ErrorKinds : AttemptFails(k)
    \/ LoopExhausted

SpecAI == InitSpecAI /\ [][NextAI]_vars

InitSpecReport ==
    /\ \E l \in LogLists : work_logs = [i \in DOMAIN l |-> EntryOf(i, l[i])]
    /\ disk_logs = work_logs
    /\ clock = 0
    /\ call = NoCall
    /\ InitAI
    /\ ai_generator \in BOOLEAN
    /\ rg_call = NoCall
    /\ InitSched
    /\ InitConfig /\ InitSettings /\ InitShared
    /\ InitClient

NextReport ==
    \/ GetLogsByDateRange
    \/ GenerateDailyReport
    \/ GenerateWeeklyReport
    \/ GenerateMonthlyReport

SpecReport == InitSpecReport /\ [][NextReport]_vars

\* The scheduler as constructed, at one of the start instants, under any of
\* the settings.
InitSpecSched ==
    /\ InitStore /\ InitAI /\ InitReport /\ InitConfig /\ InitClient /\ InitSettings /\ InitShared
    /\ now \in StartInstants
    /\ feishu_config \in FeishuConfigs
    /\ running = FALSE
    /\ feishu_client = FALSE
    /\ scheduler_thread = 0
    /\ thr = [t \in 1..MaxThreads |-> Thread("dead", 0)]
    /\ last_check_time = -1
    /\ submit_status = DefaultSubmitStatus
    /\ disk_submit_status = DefaultSubmitStatus
    /\ sent = <<>>
    /\ check_call = NoCheck
    /\ ui = [pc |-> "idle", deadline |-> 0, then |-> "idle", calls |-> 0,
             started |-> NoStart]

NextSched ==
    \/ \E conn_ok \in BOOLEAN : Start(conn_ok)
    \/ Stop
    \/ \E c \in FeishuConfigs, conn_ok \in BOOLEAN : OnSettingsChanged(c, conn_ok)
    \/ \E conn_ok \in BOOLEAN : JoinReturns(conn_ok)
    \/ \E t \in 1..MaxThreads : LoopTest(t)
    \/ \E t \in 1..MaxThreads : Iterate(t)
    \/ \E t \in 1..MaxThreads : Wake(t)
    \/ Tick

SpecSched == InitSpecSched /\ [][NextSched]_vars

InitSpecConfigAll ==
    InitStore /\ InitAI /\ InitReport /\ InitSched /\ InitSpecConfig /\ InitClient /\ InitSettings /\ InitShared

NextConfig ==
    \/ NewConfigManager
    \/ update_settings
    \/ update_ai_config

SpecConfig == InitSpecConfigAll /\ [][NextConfig]_vars

InitSpecRangeAll ==
    /\ InitStore /\ InitAI /\ InitReport /\ InitSched /\ InitConfig /\ InitSettings /\ InitShared
    /\ InitSpecRange /\ InitDeadline /\ InitToken

NextRange == WeeklyRange \/ MonthlyRange

SpecRange == InitSpecRangeAll /\ [][NextRange]_vars

InitSpecDeadlineAll ==
    /\ InitStore /\ InitAI /\ InitReport /\ InitSched /\ InitConfig /\ InitSettings /\ InitShared
    /\ InitRange /\ InitSpecDeadline /\ InitToken

NextDeadline == GetReportDeadlines \/ AutoSubmitReport

SpecDeadline == InitSpecDeadlineAll /\ [][NextDeadline]_vars

NextToken == GetTenantAccessToken \/ TokenTick

SpecToken == Init /\ [][NextToken]_vars

(***************************************************************************)
(* Claims about the work-log store (checked under Spec).                   *)
(***************************************************************************)

\* C2: after any sequence of add_work_log and delete_work_log from an empty
\* store, no two entries of the work-log list have the same identifier.
C2_UniqueIds ==
    \A i, j \in 1..Len(work_logs) :
        i # j => work_logs[i].id # work_logs[j].id

\* The list `logs` without its i-th element.
WithoutIndex(logs, i) == SubSeq(logs, 1, i - 1) \o SubSeq(logs, i + 1, Len(logs))

\* C9: delete_work_log(id), called with the identifier of a stored entry,
\* removes exactly one entry, the one with that identifier, and leaves every
\* other entry (identifier included) as it was.
C9_DeleteRemovesExactlyOne ==
    (call.op = "delete" /\ \E i \in 1..Len(call.before) : call.before[i].id = call.log_id)
        => \E i \in 1..Len(call.before) :
               /\ call.before[i].id = call.log_id
               /\ get_work_logs = WithoutIndex(call.before, i)

\* C10: right after add_work_log, get_work_logs ends with the new entry, which
\* carries the caller's fields, the identifier (entries before the call) + 1
\* and a creation timestamp not earlier than the start of the call; the
\* entries stored before are unchanged.
C10_AddThenGet ==
    call.op = "add" =>
        LET logs == get_work_logs
            n == Len(call.before)
        IN /\ Len(logs) = n + 1
           /\ SubSeq(logs, 1, n) = call.before
           /\ logs[n + 1].id = n + 1
           /\ logs[n + 1].created_at >= call.start
           /\ logs[n + 1].content = call.arg.content
           /\ logs[n + 1].date = call.arg.date

\* An add on a non-empty list whose timestamp is later than the call's start.
C10_Witness ==
    /\ call.op = "add"
    /\ Len(call.before) >= 1
    /\ work_logs[Len(work_logs)].created_at > call.start

(***************************************************************************)
(* Claims about the work-log window (checked under SpecWindow).            *)
(***************************************************************************)
\* C27: after a confirmed delete of an entry in the work-log window,
\* get_work_logs holds no entry with that entry's identifier, and the window
\* shows success only if the entry was removed.
C27_WindowDeleteRemoves ==
    call.op = "window delete" =>
        \A i \in 1..Len(get_work_logs) : get_work_logs[i].id # call.log_id

(***************************************************************************)
(* Claims about _call_openai_api (checked under SpecAI).                   *)
(***************************************************************************)
\* The requests made so far: one per failed attempt, one for a success.
Requests == Len(ai_errors) + (IF ai_result = "text" THEN 1 ELSE 0)

\* C7: the call makes at most retry_count requests; when every attempt fails,
\* whatever the errors, it returns None and does not raise; a successful
\* attempt is returned at once, with no attempt after it.
C7_BoundedRetry ==
    /\ Requests <= retry_count
    /\ ai_result # "raised"
    /\ (ai_pc = "done" /\ Len(ai_errors) >= retry_count) => ai_result = "None"
    /\ ai_result = "text" => ai_pc = "done"
    /\ (ai_pc = "done" /\ ai_result = "None") => Len(ai_errors) = retry_count

\* Every attempt of a three-attempt call failed, with errors of all three kinds.
C7_Witness ==
    /\ ai_pc = "done"
    /\ retry_count = 3
    /\ ai_result = "None"
    /\ ai_errors = <<"api error", "other", "rate limit">>

\* The call is over and every attempt failed with a rate-limit error.
AllRateLimited ==
    /\ ai_pc = "done"
    /\ ai_result = "None"
    /\ \A i \in 1..Len(ai_errors) : ai_errors[i] = "rate limit"

\* C8 as stated: when every attempt fails with a rate-limit error, the sleeps
\* before successive retries are 4, 8, 16, ... seconds.
C8_SleepsFourEightSixteen ==
    AllRateLimited => \A i \in 1..Len(ai_sleeps) : ai_sleeps[i] = 2 ^ (i + 1)

\* C8, amended: when every attempt fails with a rate-limit error, there is one
\* sleep after each failed attempt but the last, the sleeps are 2, 4, 8, ...
\* seconds (2^attempt * 2, attempt counted from zero), and the call returns
\* None after retry_count attempts.
C8_SleepsTwoFourEight ==
    AllRateLimited =>
        /\ Len(ai_errors) = retry_count
        /\ Len(ai_sleeps) = (IF retry_count = 0 THEN 0 ELSE retry_count - 1)
        /\ \A i \in 1..Len(ai_sleeps) : ai_sleeps[i] = 2 ^ i

\* Four rate-limited attempts: the sleeps were 2, 4 and 8 seconds.
C8_Witness ==
    /\ AllRateLimited
    /\ retry_count = 4
    /\ ai_sleeps = <<2, 4, 8>>

(***************************************************************************)
(* Claims about the report assembler (checked under SpecReport).           *)
(***************************************************************************)
Periods == {"daily", "weekly", "monthly"}

\* The entries of a list, as a set.
Entries(logs) == {logs[i] : i \in 1..Len(logs)}

\* C4: get_logs_by_date_range(start, end) returns exactly the stored entries
\* whose date string d satisfies start <= d <= end (string order, inclusive),
\* each once, in ascending order of date.
C4_RangeExact ==
    rg_call.op = "range" =>
        LET res == rg_call.result IN
        /\ Entries(res) =
               {e \in Entries(work_logs) :
                    StrLE(rg_call.start_date, e.date) /\ StrLE(e.date, rg_call.end_date)}
        /\ \A j, k \in 1..Len(res) : j < k => res[j] # res[k]
        /\ \A j, k \in 1..Len(res) : j < k => StrLE(res[j].date, res[k].date)

\* A range query whose result holds both stored entries, the later-stored
\* one first: the sort has moved it.
C4_Witness ==
    /\ rg_call.op = "range"
    /\ Len(rg_call.result) = 2
    /\ rg_call.result[1].id = 2
    /\ rg_call.result[1].date # rg_call.result[2].date

\* The call took the AI path.
OnAIPath == rg_call.use_ai /\ ai_generator

\* C5 as stated: a generator returns None whenever no entry lies in the
\* computed range, on the template path and on the AI path alike.
C5_NoneWhenEmpty ==
    (rg_call.op \in Periods /\ rg_call.logs = <<>>) => rg_call.result = None

\* C5, amended: with no entry in the computed range a generator returns None
\* on the AI path only; on the template path it returns the period's template
\* filled with the fixed "no record" strings, without a bullet line.
C5_NoneWhenEmptyOnAIPath ==
    (rg_call.op \in Periods /\ rg_call.logs = <<>>) =>
        IF OnAIPath THEN rg_call.result = None
        ELSE /\ rg_call.result.kind = "str"
             /\ Len(rg_call.result.lines) = Len(get_templates[rg_call.op])
             /\ \A i \in 1..Len(rg_call.result.lines) :
                    /\ rg_call.result.lines[i].kind = "text"
                    /\ ~get_templates[rg_call.op][i].lit
                         => rg_call.result.lines[i].v \in {"no record", "to be planned"}

\* A report asked with use_ai, without an AI generator, over an empty range
\* while the store holds entries: the template is returned.
C5_Witness ==
    /\ rg_call.op \in Periods
    /\ rg_call.logs = <<>>
    /\ work_logs # <<>>
    /\ rg_call.use_ai
    /\ ~ai_generator
    /\ rg_call.result.kind = "str"

\* The contents a report lists.
BulletContents(result) ==
    IF result.kind = "str"
    THEN {result.lines[i].v : i \in {j \in 1..Len(result.lines) : result.lines[j].kind = "bullet"}}
    ELSE {}

\* The Monday that begins the week of a date.
MondayOf(date_str) ==
    LET dt == Strptime(date_str) IN ToOrdinal(dt) - ((ToOrdinal(dt) + 6) % 7)

\* The entry's date lies in the Monday..Sunday week of the target date.
InWeekOf(e, target_date) == MondayOf(e.date) = MondayOf(target_date)

\* C6 as stated: a weekly report made without AI contains the content of
\* every entry dated in the target's Monday..Sunday week, whatever its
\* priority, status and type, and of no entry outside that week.
C6_WeeklyListsWholeWeek ==
    (rg_call.op = "weekly" /\ ~OnAIPath) =>
        \A e \in Entries(work_logs) :
            InWeekOf(e, rg_call.target_date) <=> e.content \in BulletContents(rg_call.result)

\* C6, amended: a weekly report made without AI (default template) lists the
\* content of exactly those entries of the target's Monday..Sunday week whose
\* priority is high, or whose status is completed and whose type is project;
\* other entries of the week, and entries outside it, are not listed.
C6_WeeklyListsHighAndDoneProjects ==
    (rg_call.op = "weekly" /\ ~OnAIPath) =>
        \A e \in Entries(work_logs) :
            e.content \in BulletContents(rg_call.result)
                <=> /\ InWeekOf(e, rg_call.target_date)
                    /\ \/ e.priority = "high"
                       \/ e.status = "done" /\ e.type = "project"

\* The weekly report for 2024-06-05 lists one entry of the week and leaves
\* out another entry of the same week.
C6_Witness ==
    /\ rg_call.op = "weekly"
    /\ ~OnAIPath
    /\ rg_call.target_date = Strftime(Date(2024, 6, 5))
    /\ \E e \in Entries(work_logs) :
           InWeekOf(e, rg_call.target_date) /\ e.content \in BulletContents(rg_call.result)
    /\ \E e \in Entries(work_logs) :
           InWeekOf(e, rg_call.target_date) /\ e.content \notin BulletContents(rg_call.result)

(***************************************************************************)
(* Claims about the submit scheduler (checked under SpecSched).            *)
(***************************************************************************)

\* C1: for each cadence at most one report is delivered per calendar day:
\* once a cadence has been delivered on a date, no later check on that date
\* delivers it again.  Stated for the runs in which start() is the only call
\* made on the scheduler, so that a single loop thread does all the checks.
C1_OneSubmissionPerDay ==
    ui.calls <= 1 =>
        \A i, j \in DOMAIN sent :
            i # j => ~(sent[i].type = sent[j].type /\ sent[i].date = sent[j].date)

\* A thread that has found self.running true and is inside an iteration of
\* the loop: checking, or asleep until the next minute.
InLoop(t) == thr[t].pc \in {"body", "sleep"}

\* C3: for any sequence of start(), stop() and on_settings_changed, at most
\* one thread is executing the scheduler loop at any time.
C3_AtMostOneLoopThread == Cardinality({t \in 1..MaxThreads : InLoop(t)}) <= 1

(***************************************************************************)
(* Claims about the configuration document (checked under SpecConfig).     *)
(***************************************************************************)

\* A file whose content cannot be used as a configuration document.
Unusable(file) ==
    \/ file.kind \in {"not utf-8", "not json"}
    \/ file.kind = "json" /\ ~IsDict(file.doc)

\* C11: after a load from any JSON document, every key of the default
\* structure is present in the configuration at every nesting level, with
\* the document's value where the document has a leaf there and the default
\* value where the document has nothing there.
C11_DefaultsPresentAfterLoad ==
    (cm_call.op = "load" /\ config_file.kind = "json") =>
        /\ cm_call.raised = ""
        /\ \A p \in DOMAIN get_default_config :
              /\ p \in DOMAIN config
              /\ p \notin DOMAIN config_file.doc => config[p] = get_default_config[p]
              /\ (p \in DOMAIN config_file.doc /\ get_default_config[p] # DictMark)
                    => config[p] = config_file.doc[p]
              /\ get_default_config[p] = DictMark => config[p] = DictMark

\* C12: load never raises to the caller, and when the file is absent or its
\* content cannot be used as a configuration document the configuration is
\* the default structure, with its settings and ai_config sections.
C12_LoadNeverRaises ==
    cm_call.op = "load" =>
        /\ cm_call.raised = ""
        /\ (config_file.kind = "absent" \/ Unusable(config_file)) =>
              /\ config = get_default_config
              /\ {"settings", "ai_config"} \subseteq KeysOf(config)

\* After an update of a section by values: the section holds values' value
\* at every key of values and the value it had at every other key.
SectionUpdated(c) ==
    LET section == Child(config, c.section)
        previous == Child(c.before, c.section)
    IN /\ IsDict(section)
       /\ KeysOf(section) = KeysOf(previous) \cup KeysOf(c.arg)
       /\ \A k \in KeysOf(c.arg) : Child(section, k) = Child(c.arg, k)
       /\ \A k \in KeysOf(previous) \ KeysOf(c.arg) : Child(section, k) = Child(previous, k)

\* A manager constructed on the file observes the section as it was in the
\* memory of the manager before it.
SectionReloaded(c) ==
    /\ c.raised = ""
    /\ Child(config, c.prev.section) = Child(c.before, c.prev.section)

\* C13 as stated: after update_settings(S) or update_ai_config(S) returns,
\* the section in memory is the previous one updated by S, and a manager
\* constructed next on the same file observes the same section.
C13_UpdateRoundTrip ==
    /\ cm_call.op = "update" => SectionUpdated(cm_call)
    /\ (cm_call.op = "load" /\ cm_call.prev.op = "update") => SectionReloaded(cm_call)

\* C13, amended: the same after an update that returned True.
C13_UpdateRoundTripWhenSaved ==
    /\ (cm_call.op = "update" /\ cm_call.ret) => SectionUpdated(cm_call)
    /\ (cm_call.op = "load" /\ cm_call.prev.op = "update" /\ cm_call.prev.ret)
          => SectionReloaded(cm_call)

\* C13's case: update_settings with a new key and a changed one returned True
\* on a configuration loaded from the document of the tests, and a second
\* manager was constructed.
C13_Witness ==
    /\ cm_call.op = "load"
    /\ cm_call.prev.op = "update" /\ cm_call.prev.section = "settings" /\ cm_call.prev.ret
    /\ cm_call.raised = ""
    /\ Child(Child(config, "settings"), "new_setting") = Leaf("test_value")
    /\ Child(Child(config, "settings"), "reminder_enabled") = Leaf("False")
    /\ Child(Child(config, "settings"), "auto_submit_enabled") = Leaf("False")

(***************************************************************************)
(* Claims about the report ranges (checked under SpecRange).               *)
(***************************************************************************)

\* The days between two dates; 2024-01-01 was a Monday.
DaysBetween(a, b) == ToOrdinal(b) - ToOrdinal(a)
IsMonday(dt) == DaysBetween(Date(2024, 1, 1), dt) % 7 = 0

\* The number of days of a month of the calendar.
CalendarDays(y, m) ==
    CASE m \in {1, 3, 5, 7, 8, 10, 12} -> 31
      [] m \in {4, 6, 9, 11} -> 30
      [] m = 2 -> IF y % 400 = 0 \/ (y % 4 = 0 /\ y % 100 # 0) THEN 29 ELSE 28

\* C14: the weekly range is the Monday of the target date's week to that
\* Monday plus six days, whatever the target's weekday; the monthly range is
\* the first day of the target's month to the true last day of that month.
C14_WeekAndMonthRanges ==
    LET target == Strptime(range_call.target_date)
        start == Strptime(range_call.range[1])
        end == Strptime(range_call.range[2])
    IN /\ range_call.op = "weekly" =>
             /\ IsMonday(start)
             /\ DaysBetween(start, target) \in 0..6
             /\ DaysBetween(start, end) = 6
             /\ range_call.range = <<Strftime(start), Strftime(end)>>
       /\ range_call.op = "monthly" =>
             /\ start = Date(target.y, target.m, 1)
             /\ end = Date(target.y, target.m, CalendarDays(target.y, target.m))
             /\ range_call.range = <<Strftime(start), Strftime(end)>>

\* C14's case: the weekly range of a Sunday, which starts six days earlier.
C14_Witness ==
    /\ range_call.op = "weekly"
    /\ range_call.target_date = Strftime(Date(2024, 3, 3))
    /\ range_call.range = <<Strftime(Date(2024, 2, 26)), Strftime(Date(2024, 3, 3))>>

(***************************************************************************)
(* Claims about template rendering (checked under SpecReport).             *)
(***************************************************************************)

\* C15: rendering a daily, weekly or monthly report on the template path
\* never fails for a missing placeholder: every placeholder of each period's
\* default template has a value in the mapping made for an empty list, and
\* the mapping made for the entries of the call has the same keys.
C15_NoMissingPlaceholder ==
    (rg_call.op \in Periods /\ ~OnAIPath) =>
        /\ rg_call.result.kind = "str"
        /\ Len(rg_call.result.lines) >= Len(get_templates[rg_call.op])
        /\ \A period \in Periods :
              Placeholders(get_templates[period]) \subseteq DOMAIN format_logs_for_template(<<>>)
        /\ DOMAIN format_logs_for_template(rg_call.logs) = DOMAIN format_logs_for_template(<<>>)

\* C15's case: a monthly report rendered from the template with no entry in
\* the month, each of its three placeholders filled.
C15_Witness ==
    /\ rg_call.op = "monthly"
    /\ ~OnAIPath
    /\ rg_call.logs = <<>>
    /\ work_logs # <<>>
    /\ rg_call.result = Str(<<[kind |-> "text", v |-> "monthly summary"],
                              [kind |-> "text", v |-> "achievements:"],
                              [kind |-> "text", v |-> "no record"],
                              [kind |-> "text", v |-> "milestones:"],
                              [kind |-> "text", v |-> "no record"],
                              [kind |-> "text", v |-> "next month:"],
                              [kind |-> "text", v |-> "to be planned"]>>)

(***************************************************************************)
(* Claims about the deadlines (checked under SpecDeadline).                *)
(***************************************************************************)

\* The second of the day and the date of an instant, from the number of
\* whole days since EpochDate, a Thursday.
DaysSinceEpoch(t) == t \div 86400
IsFridayAt(t) == (DaysSinceEpoch(t) - 1) % 7 = 0
CalendarDateAt(t) == FromOrdinal(ToOrdinal(Date(2024, 5, 30)) + DaysSinceEpoch(t))
IsLastDayOfMonthAt(t) ==
    CalendarDateAt(t).d = CalendarDays(CalendarDateAt(t).y, CalendarDateAt(t).m)

\* C16: for the daily cadence should_submit is true exactly when
\* deadline - 2h <= now <= deadline, the deadline being on the current day;
\* it is false one second before deadline - 2h and one second after deadline.
C16_DailyWindow ==
    (fc_call.op = "deadlines" /\ fc_call.report_type = "daily") =>
        /\ DaysSinceEpoch(fc_call.deadline) = DaysSinceEpoch(fc_now)
        /\ fc_call.should_submit
              <=> (fc_call.deadline - 7200 <= fc_now /\ fc_now <= fc_call.deadline)
        /\ fc_now = fc_call.deadline - 7201 => ~fc_call.should_submit
        /\ fc_now = fc_call.deadline + 1 => ~fc_call.should_submit

\* C16's case: the daily deadlines asked for at the first second of the
\* window, where should_submit is true.
C16_Witness ==
    /\ fc_call.op = "deadlines"
    /\ fc_call.report_type = "daily"
    /\ fc_now = fc_call.deadline - 7200
    /\ fc_call.should_submit

\* C17: for the weekly and monthly cadences should_submit is false at every
\* time of every day other than the qualifying day (weekly: Friday; monthly:
\* the last calendar day of the month), and on the qualifying day it is true
\* only while submit_time <= now <= deadline.
C17_QualifyingDayOnly ==
    /\ (fc_call.op = "deadlines" /\ fc_call.report_type = "weekly" /\ fc_call.should_submit) =>
          /\ IsFridayAt(fc_now)
          /\ fc_call.submit_time <= fc_now /\ fc_now <= fc_call.deadline
    /\ (fc_call.op = "deadlines" /\ fc_call.report_type = "monthly" /\ fc_call.should_submit) =>
          /\ IsLastDayOfMonthAt(fc_now)
          /\ fc_call.submit_time <= fc_now /\ fc_now <= fc_call.deadline

\* C17's case: the monthly deadlines asked for at 20:00:00 of 29 February
\* 2024, where should_submit is true.
C17_Witness ==
    /\ fc_call.op = "deadlines"
    /\ fc_call.report_type = "monthly"
    /\ CalendarDateAt(fc_now) = Date(2024, 2, 29)
    /\ fc_now = fc_call.submit_time
    /\ fc_call.should_submit

\* C18: the daily deadline is the configured end-of-day time on the current
\* date, and the submit time is exactly two hours before it.
C18_DailyDeadlineConfigured ==
    (fc_call.op = "deadlines" /\ fc_call.report_type = "daily") =>
        /\ fc_call.deadline = DaysSinceEpoch(fc_now) * 86400 + fc_settings.work_end_time
        /\ fc_call.submit_time = fc_call.deadline - 7200

\* The window of a label's cadence is open at instant t.
WindowOpenAt(label, t) ==
    LET second == t % 86400 IN
    CASE label = "daily report" -> 16 * 3600 <= second /\ second <= 18 * 3600
      [] label = "weekly report" -> IsFridayAt(t) /\ 20 * 3600 <= second
      [] label = "monthly report" -> IsLastDayOfMonthAt(t) /\ 20 * 3600 <= second

\* C19: auto_submit_report makes no delivery and returns success = false
\* whenever should_submit is false for the requested cadence at the time of
\* the call; success = true is returned only after a delivery made while
\* should_submit was true.
C19_NoDeliveryOutsideWindow ==
    (fc_call.op = "auto_submit" /\ fc_call.report_type # "other") =>
        /\ ~WindowOpenAt(fc_call.report_type, fc_now) => (fc_call.sends = 0 /\ ~fc_call.success)
        /\ fc_call.success => (fc_call.sends = 1 /\ WindowOpenAt(fc_call.report_type, fc_now))

\* C19's case: the weekly report submitted on a Friday one second before
\* the window opens: refused, nothing sent.
C19_Witness ==
    /\ fc_call.op = "auto_submit"
    /\ fc_call.report_type = "weekly report"
    /\ IsFridayAt(fc_now)
    /\ fc_now % 86400 = 20 * 3600 - 1
    /\ fc_call.sends = 0
    /\ ~fc_call.success

(***************************************************************************)
(* Claims about the access token (checked under SpecToken).                *)
(***************************************************************************)

\* C20: get_tenant_access_token issues a request only when no token is
\* cached or the time has reached the cached soft expiry, which is the
\* acquisition time plus the reported lifetime minus 300 seconds; in every
\* other call it returns the cached token without a request; a failed
\* exchange returns nothing.
C20_TokenCached ==
    token_call.op = "token" =>
        /\ token_call.requested
              <=> (token_call.before_token = 0 \/ token_call.at >= token_call.before_expire)
        /\ ~token_call.requested => token_call.ret = token_call.before_token
        /\ token_call.lifetime # 0 =>
              token_expire_time = token_call.acquired_at + token_call.lifetime - 300
        /\ (token_call.requested /\ token_call.ret # 0) =>
              (token_call.acquired_at = token_call.at /\ token_call.ret = tenant_access_token)
        /\ (token_call.requested /\ token_call.outcome # "ok") => token_call.ret = 0

\* C20's case: a token acquired at 0 with a lifetime of 500 and returned
\* from the cache, without a request, 100 seconds later.
C20_Witness ==
    /\ token_call.op = "token"
    /\ ~token_call.requested
    /\ token_call.at = 100
    /\ token_call.acquired_at = 0
    /\ token_call.lifetime = 500
    /\ token_call.ret = 1
    /\ token_call.requests = 1

(***************************************************************************)
(* Further claims about the submit scheduler (checked under SpecSched).    *)
(***************************************************************************)

\* C21: a start() called on a stopped scheduler returns true exactly when
\* the chat client was constructed and its connectivity test succeeded, and
\* then the scheduler is running with one new loop thread; when the
\* integration is disabled, the credentials are missing or the test fails,
\* it returns false, the scheduler is still stopped and no thread was
\* created.
C21_StartOnlyWithClient ==
    (ui.started.called /\ ~ui.started.was_running) =>
        /\ ui.started.ret <=> (ui.started.constructed /\ ui.started.test_ok)
        /\ ui.started.ret =>
              (ui.started.running_after /\ Cardinality(ui.started.created) = 1)
        /\ ~ui.started.ret =>
              (~ui.started.running_after /\ ui.started.created = {})

\* C21's case: a start() on a stopped scheduler whose client was constructed
\* and whose connectivity test failed, refused with no thread.
C21_Witness ==
    /\ ui.started.called
    /\ ~ui.started.was_running
    /\ ui.started.constructed
    /\ ~ui.started.test_ok
    /\ ~ui.started.ret
    /\ \A t \in 1..MaxThreads : ~Alive(t)

\* The results a check left for cadence c.
ResultsFor(t, c) == SelectSeq(thr[t].results, LAMBDA r : r.type = c)

\* C22: in a check that reached check_and_auto_submit, a cadence whose
\* attempt raised has exactly one result, a failure; every other cadence has
\* the result of its own attempt (a success when it was delivered, a failure
\* when delivery failed, none when there was no content or its window was
\* closed); and the thread that made the check goes on to its sleep.
C22_CadenceExceptionIsolated ==
    \A t \in 1..MaxThreads :
        thr[t].checked =>
            /\ thr[t].pc = "sleep"
            /\ \A c \in {"daily", "weekly", "monthly"} :
                  /\ thr[t].outcome[c] = Raised =>
                        ResultsFor(t, c) = <<[type |-> c, success |-> FALSE]>>
                  /\ thr[t].outcome[c] = "failed" =>
                        ResultsFor(t, c) = <<[type |-> c, success |-> FALSE]>>
                  /\ thr[t].outcome[c] = "sent" =>
                        ResultsFor(t, c) = <<[type |-> c, success |-> TRUE]>>
                  /\ thr[t].outcome[c] = "no content" => ResultsFor(t, c) = <<>>

\* C22's case: a check on the Friday evening of the month's last day in
\* which the weekly attempt raised and the monthly report was delivered.
C22_Witness ==
    \E t \in 1..MaxThreads :
        /\ thr[t].checked
        /\ thr[t].outcome["weekly"] = Raised
        /\ thr[t].outcome["monthly"] = "sent"
        /\ thr[t].results = <<[type |-> "weekly", success |-> FALSE],
                              [type |-> "monthly", success |-> TRUE]>>
        /\ Alive(t)

\* The date of the last delivery among those of the given cadences, the
\* empty string when there is none.
LastDelivery(types) ==
    LET mine == SelectSeq(sent, LAMBDA r : r.type \in types)
    IN IF mine = <<>> THEN <<>> ELSE mine[Len(mine)].date

\* C23: the submit status in memory follows the successful submissions: the
\* counter has gone up by one for each of them, each cadence's last-submit
\* date and the overall one are the date of its last delivery, and a
\* submission that failed, raised or had no content has changed nothing.
C23_StatusFollowsSubmissions ==
    /\ submit_status.submit_count = DefaultSubmitStatus.submit_count + Len(sent)
    /\ submit_status.last_daily_submit = LastDelivery({"daily"})
    /\ submit_status.last_weekly_submit = LastDelivery({"weekly"})
    /\ submit_status.last_monthly_submit = LastDelivery({"monthly"})
    /\ submit_status.last_submit_date = LastDelivery({"daily", "weekly", "monthly"})

\* C23's case: a check delivered the weekly and the monthly report, the
\* counter stands at two and both dates are that day's.
C23_Witness ==
    /\ \E t \in 1..MaxThreads :
           /\ thr[t].checked
           /\ thr[t].outcome["weekly"] = "sent"
           /\ thr[t].outcome["monthly"] = "sent"
    /\ Len(sent) = 2
    /\ submit_status.submit_count = 2
    /\ submit_status.last_weekly_submit = Today(now)
    /\ submit_status.last_monthly_submit = Today(now)
    /\ submit_status.last_daily_submit = <<>>

\* C25: any two consecutive calls of _check_and_submit_reports made by the
\* loop are at least check_interval seconds apart, whatever the earlier
\* call came to.
C25_ChecksAtLeastIntervalApart ==
    (check_call.called /\ check_call.prev # -1) =>
        check_call.at - check_call.prev >= CheckInterval

\* C26: a loop thread that was running when stop() was called has ended
\* the next time it has evaluated the stop flag: it starts no further
\* iteration and no further check.
C26_StoppedThreadExits ==
    \A t \in 1..MaxThreads :
        (thr[t].stopped /\ thr[t].tested) => thr[t].pc = "dead"

\* C30: once a check has recorded a successful submission, the persisted
\* submit status equals the one in memory.
C30_StatusPersistedAfterSubmit ==
    (\E t \in 1..MaxThreads :
        thr[t].checked /\ \E i \in DOMAIN thr[t].results : thr[t].results[i].success)
        => disk_submit_status = submit_status

(***************************************************************************)
(* Claims about the settings window (checked under SpecSettings).          *)
(***************************************************************************)

\* C24: a save that is refused with the validation message (AI enabled, no
\* API key) leaves the configuration in memory and the file on disk as they
\* were before the save.
C24_RefusedSaveChangesNothing ==
    sw_call.message = "validation failed" =>
        /\ config = sw_call.before_config
        /\ config_file = sw_call.before_file

(***************************************************************************)
(* Claims about the unlocked configuration (checked under SpecShared).     *)
(***************************************************************************)

\* C28: once the add_report_history calls of the worker and of the timer
\* have returned, the history holds one record for each call and no two
\* records have the same identifier.
C28_BothKeptDistinctIds ==
    (\A t \in {"timer", "worker"} : th[t].pc \notin {"append", "save"}) =>
        /\ Len(report_history) = th["timer"].calls + th["worker"].calls
        /\ \A i, j \in 1..Len(report_history) :
               i # j => report_history[i].id # report_history[j].id

\* C29: when no update of the submit status is under way, the counter is
\* its initial value plus the number of submissions the scheduler and the
\* timer have recorded.
C29_NoLostIncrement ==
    (\A t \in {"timer", "scheduler"} : th[t].pc # "write") => submit_count = recorded

====
